---- MODULE Spec2Model ----
(***************************************************************************)
(* Ledger and workflow core of the time-off tracker (src/app.py):          *)
(* request submission with duplicate detection, approval / denial /        *)
(* cancellation of pending vacation requests, supervisor day-status        *)
(* overrides, admin balance adjustments, the annual accrual run and the    *)
(* new-year sick reset.                                                     *)
(*                                                                         *)
(* Hours are whole hours.  A calendar date (and its YYYY-MM-DD text) is a  *)
(* day number: day Jan1 is January 1 of year 2026, the days before it are  *)
(* the last days of 2025.                                                  *)
(***************************************************************************)
EXTENDS Integers, Sequences, FiniteSets, TLC

VARIABLES
    users,               \* users.json: username -> profile
    requests,            \* requests_data.requests: the in-memory pending queue
    request_log,         \* request_log.request_log: the append-only event log
    status_log,          \* status_log.json: date -> username -> status label
    today,               \* the wall clock's calendar day
    first_request_done,  \* Flask's before_first_request hook has run
    result,              \* what the last operation returned to its caller
    pending_file,        \* pending.json: the list kept by pending_store
    inflight             \* the requests being served: locals of each worker thread

vars == <<users, requests, request_log, status_log, today, first_request_done, result,
          pending_file, inflight>>

----------------------------------------------------------------------------
(* Bounds of the model *)

MaxDate == 2        \* the calendar of the model is the days 1..MaxDate
MaxLog == 4         \* no operation is issued that makes the event log longer than this
MaxAudit == 2       \* Spec: ... or the audit lists, taken together, longer than this
MaxAuditDeep == 4   \* VacationSpec: the same, for its fewer operations
MaxAuditAgg == 3    \* AggregateSpec: the same
MaxRangeDate == 4   \* RangeSpec: ranges are chosen within the days 1..MaxRangeDate
MaxAggDate == 3     \* AggregateSpec: vacation is requested for the days 1..MaxAggDate
MaxInputLog == 2    \* InputSpec: the event log holds at most this many entries
MaxConcurrentLog == 3   \* ConcurrentSpec: the event log holds at most this many entries
MaxPending == 3     \* PendingStoreSpec: pending.json holds at most this many entries

(* Program constants *)

Jan1 == MaxDate     \* the calendar of the model ends on January 1
MAX_FORWARD_DAYS == 30
AuditKeep == 500
CarryoverCap == 560
MinUseThreshold == 240

Persons == {"p1", "p2"}
Threads == {"t1", "t2"}          \* the worker threads of the server
Idle == [pc |-> "idle"]          \* a worker that serves no request
Dates == 1..MaxDate
NoDate == 0                      \* the empty end_date form field
BadDate == -1                    \* a date form field that strptime rejects
\* the (type, hours) form fields: the valid ones and three invalid ones
SubmitInputs ==
    ({"vacation", "sick"} \X {4, 8}) \cup {<<"comp", 8>>, <<"vacation", 0>>, <<"sick", 25>>}
\* the (date, end_date) form fields: single days, a range, an inverted range
RangeInputs == (Dates \X {NoDate}) \cup {<<1, MaxDate>>, <<MaxDate, 1>>}
ActionInputs == {"approve", "deny"}
StatusInputs == {"Available", "Training", "FMLA", "Sick"}
AdjustHours == {0, 8}

YearOf(d) == IF d < Jan1 THEN 2025 ELSE 2026

----------------------------------------------------------------------------
(* Sequence helpers *)

RemoveAt_keep(s, i) == s

RemoveAt_head(s, i) == Tail(s)

RemoveAt(s, i) == SubSeq(s, 1, i - 1) \o SubSeq(s, i + 1, Len(s))

----------------------------------------------------------------------------
(* Audit trail *)

\* audit_append: append one event, then keep the last 500
audit_append(u, action) ==
    LET a == Append(u.audit, [action |-> action])
    IN  [u EXCEPT !.audit = IF Len(a) > AuditKeep
                            THEN SubSeq(a, Len(a) - AuditKeep + 1, Len(a))
                            ELSE a]

\* _audit_append, and the inline append of adjust_sick: no ring buffer
_audit_append(u, action) ==
    [u EXCEPT !.audit = Append(@, [action |-> action])]

RECURSIVE SumAudit(_, _)
SumAudit(us, ps) ==
    IF ps = {} THEN 0
    ELSE LET p == CHOOSE q \in ps : TRUE
         IN  Len(us[p].audit) + SumAudit(us, ps \ {p})


----------------------------------------------------------------------------
(* What an operation returns *)

NoResult ==
    [op |-> "none", outcome |-> "none", user |-> "", type |-> "", dates |-> <<>>,
     hours |-> 0, arg |-> "", dup_dates |-> <<>>, updated |-> 0, skipped |-> 0,
     rows |-> <<>>,
     writes |-> <<>>]     \* the stores the operation wrote to, in the order of the writes

Res(op, outcome, user) ==
    [NoResult EXCEPT !.op = op, !.outcome = outcome, !.user = user]

----------------------------------------------------------------------------
(* Initial state: freshly started process, empty queue and log *)

default_user(vac, sick, sen) ==
    [vacation_left |-> vac, vacation_used_today |-> 0,
     sick_left |-> sick, sick_used_ytd |-> 0,
     is_active |-> TRUE, audit |-> <<>>,
     seniority_date |-> sen, vacation_over_cap_approved |-> FALSE,
     vacation_entitlement_days_year |-> 0, vacation_entitlement_hours_year |-> 0,
     vacation_carryover_hours |-> 0, vacation_min_required_hours |-> 0,
     nccpd_supervisor_alert |-> FALSE,
     hours_per_day_default |-> 0,     \* 0: the profile has no (or a zero) value
     in_store |-> TRUE]               \* load_users() returns a record for the person

NoSeniority == <<0, 0, 0>>

Init ==
    /\ users = [p \in Persons |->
                  IF p = "p1" THEN default_user(4, 16, <<2010, 1, 1>>)
                  ELSE default_user(16, 8, NoSeniority)]
    /\ requests = <<>>
    /\ request_log = <<>>
    /\ status_log = [d \in Dates |-> [p \in Persons |-> ""]]
    /\ today = 1
    /\ first_request_done = FALSE
    /\ result = NoResult
    /\ pending_file = <<>>
    /\ inflight = [t \in Threads |-> Idle]

----------------------------------------------------------------------------
(* submit_request *)

\* the range without its last day
build_requested_dates_exclusive(multi, date_str, end_date_str) ==
    IF multi /\ end_date_str # NoDate /\ date_str < end_date_str
    THEN [i \in 1..(end_date_str - date_str) |-> date_str + i - 1]
    ELSE IF date_str = NoDate THEN <<>> ELSE <<date_str>>

\* build_requested_dates: single date, or the inclusive range with an
\* inverted range clamped to its start
build_requested_dates(multi, date_str, end_date_str) ==
    IF /\ multi /\ end_date_str # NoDate
       /\ date_str # BadDate /\ date_str # NoDate /\ end_date_str # BadDate
    THEN LET end_dt == IF end_date_str < date_str THEN date_str ELSE end_date_str
         IN  [i \in 1..(end_dt - date_str + 1) |-> date_str + i - 1]
    ELSE IF date_str = NoDate THEN <<>> ELSE <<date_str>>   \* strptime is not called

existing_dates_queue_only(username) ==
    {requests[i].date : i \in {j \in 1..Len(requests) : requests[j].user = username}}

\* the dates already on file for the user, in the log or in the queue
existing_dates(username) ==
    {request_log[i].date : i \in {j \in 1..Len(request_log) : request_log[j].user = username}}
    \cup {requests[i].date : i \in {j \in 1..Len(requests) : requests[j].user = username}}

dup_dates_first_only(username, requested_dates) ==
    IF Head(requested_dates) \in existing_dates(username)
    THEN <<Head(requested_dates)>> ELSE <<>>

dup_dates(username, requested_dates) ==
    SelectSeq(requested_dates, LAMBDA d : d \in existing_dates(username))

log_entry(username, d, typ, hours, status) ==
    [user |-> username, date |-> d, type |-> typ, hours |-> hours,
     status |-> status, ts |-> today]

\* the queue entry created without a status of its own
pending_entry_unmarked(username, d, hours) ==
    [user |-> username, date |-> d, type |-> "vacation", hours |-> hours,
     status |-> ""]

pending_entry(username, d, hours) ==
    [user |-> username, date |-> d, type |-> "vacation", hours |-> hours,
     status |-> "pending"]

\* the sick branch of the per-day loop, for one day
sick_deduct(u, hours) ==
    [u EXCEPT !.sick_left = @ - hours, !.sick_used_ytd = @ + hours]

RECURSIVE sick_deduct_all(_, _, _)
sick_deduct_all(u, hours, n) ==
    IF n = 0 THEN u ELSE sick_deduct_all(sick_deduct(u, hours), hours, n - 1)

sick_insufficient_per_day(u, hours, n) == hours > u.sick_left

sick_insufficient_strict(u, hours, n) == hours * n >= u.sick_left

\* Sick must have enough hours for all selected days
sick_insufficient(u, hours, n) == hours * n > u.sick_left

mark_sick_first_only(sl, username, requested_dates) ==
    [sl EXCEPT ![Head(requested_dates)][username] = "Sick"]

\* status_log.setdefault(d, {})[username] = "Sick", for every requested date
mark_sick(sl, username, requested_dates) ==
    LET asked == {requested_dates[i] : i \in 1..Len(requested_dates)}
    IN  [d \in DOMAIN sl \cup asked |->
            IF d \in asked
            THEN [(IF d \in DOMAIN sl THEN sl[d] ELSE [p \in Persons |-> ""])
                     EXCEPT ![username] = "Sick"]
            ELSE sl[d]]

\* the writes of a submission that proceeds for n dates: per day the log
\* entry and then the queue entry (vacation), after the loop save_users and
\* the audit event
submit_request_writes(request_type, n) ==
    (IF request_type = "vacation"
     THEN [i \in 1..(2 * n) |-> IF i % 2 = 1 THEN "log" ELSE "queue"]
     ELSE [i \in 1..n |-> "log"])
    \o <<"ledger", "audit">>

submit_request(username, request_type, multi, date_str, end_date_str, hours, force) ==
    LET requested_dates == build_requested_dates(multi, date_str, end_date_str)
        n == Len(requested_dates)
        dups == dup_dates(username, requested_dates)
        user == users[username]
        r0 == [Res("submit_request", "ok", username) EXCEPT
                  !.type = request_type, !.dates = requested_dates, !.hours = hours,
                  !.arg = IF force THEN "force" ELSE "",
                  !.writes = submit_request_writes(request_type, n)]
        status == IF request_type = "vacation" THEN "pending" ELSE "logged"
    IN
    /\ first_request_done
    /\ users[username].is_active
    /\ users[username].in_store
    /\ IF request_type \notin {"vacation", "sick"} \/ ~(0 < hours /\ hours <= 24)
       THEN /\ result' = Res("submit_request", "invalid_input", username)
            /\ UNCHANGED <<users, requests, request_log, status_log>>
       ELSE IF requested_dates = <<>>
       THEN \* "Please select a valid date."
            /\ result' = [Res("submit_request", "invalid_input", username)
                              EXCEPT !.arg = "no_date"]
            /\ UNCHANGED <<users, requests, request_log, status_log>>
       ELSE IF ~force /\ dups # <<>>
       THEN /\ result' = [Res("submit_request", "confirm_needed", username) EXCEPT
                              !.dates = requested_dates, !.dup_dates = dups]
            /\ UNCHANGED <<users, requests, request_log, status_log>>
       ELSE IF request_type = "sick" /\ sick_insufficient(user, hours, n)
       THEN /\ result' = [r0 EXCEPT !.outcome = "insufficient_balance", !.arg = "",
                                      !.writes = <<>>]
            /\ UNCHANGED <<users, requests, request_log, status_log>>
       ELSE /\ request_log' = request_log \o
                 [i \in 1..n |-> log_entry(username, requested_dates[i],
                                           request_type, hours, status)]
            /\ IF request_type = "vacation"
               THEN /\ requests' = requests \o
                         [i \in 1..n |-> pending_entry(username, requested_dates[i], hours)]
                    /\ users' = [users EXCEPT
                                   ![username] = audit_append(user, "request_submit")]
                    /\ UNCHANGED status_log
               ELSE /\ users' = [users EXCEPT
                                   ![username] = audit_append(
                                       sick_deduct_all(user, hours, n), "request_submit")]
                    /\ status_log' = mark_sick(status_log, username, requested_dates)
                    /\ UNCHANGED requests
            /\ result' = r0
    /\ UNCHANGED <<today, first_request_done, pending_file, inflight>>

----------------------------------------------------------------------------
(* pending_store: the JSON-backed list of pending requests *)

\* str.lower() on the type labels in use
lower(s) == IF s = "Vacation" THEN "vacation" ELSE IF s = "Sick" THEN "sick" ELSE s

\* the loop of remove_pending from entry i on, dropping every matching entry
RECURSIVE remove_pending_loop_all(_, _, _, _, _, _)
remove_pending_loop_all(items, i, user, date, typ, st) ==
    IF i > Len(items) THEN st
    ELSE LET it == items[i]
         IN  IF /\ it.user = user /\ it.date = date /\ lower(it.type) = lower(typ)
             THEN remove_pending_loop_all(items, i + 1, user, date, typ,
                                          [st EXCEPT !.removed = TRUE])
             ELSE remove_pending_loop_all(items, i + 1, user, date, typ,
                                          [st EXCEPT !.out = Append(@, it)])

\* the loop of remove_pending from entry i on: st.out collects the entries
\* that stay, st.removed tells that the first match has been passed over
RECURSIVE remove_pending_loop(_, _, _, _, _, _)
remove_pending_loop(items, i, user, date, typ, st) ==
    IF i > Len(items) THEN st
    ELSE LET it == items[i]
         IN  IF /\ ~st.removed
                /\ it.user = user /\ it.date = date /\ lower(it.type) = lower(typ)
             THEN remove_pending_loop(items, i + 1, user, date, typ,
                                      [st EXCEPT !.removed = TRUE])
             ELSE remove_pending_loop(items, i + 1, user, date, typ,
                                      [st EXCEPT !.out = Append(@, it)])

list_pending == pending_file

\* add_pending: the status is normalised to pending, the entry goes last
add_pending(item) ==
    /\ first_request_done
    /\ pending_file' = Append(list_pending, [item EXCEPT !.status = "pending"])
    /\ result' = [Res("add_pending", "ok", item.user) EXCEPT
                     !.dates = <<item.date>>, !.type = item.type]
    /\ UNCHANGED <<users, requests, request_log, status_log, today,
                   first_request_done, inflight>>

\* remove_pending: the file is rewritten only when an entry was removed;
\* result.arg is the returned boolean
remove_pending(user, date, typ) ==
    LET st == remove_pending_loop(list_pending, 1, user, date, typ,
                                  [out |-> <<>>, removed |-> FALSE])
    IN  /\ first_request_done
        /\ pending_file' = IF st.removed THEN st.out ELSE pending_file
        /\ result' = [Res("remove_pending", "ok", user) EXCEPT
                         !.dates = <<date>>, !.type = typ,
                         !.arg = IF st.removed THEN "true" ELSE "false"]
        /\ UNCHANGED <<users, requests, request_log, status_log, today,
                       first_request_done, inflight>>

----------------------------------------------------------------------------
(* get_request_log, and a caller that changes the list it was given *)

CallerEdits == {"clear", "reverse", "drop_first", "append"}

\* what the caller makes of the list
caller_edit(got, edit) ==
    CASE edit = "clear" -> <<>>
      [] edit = "reverse" -> [i \in 1..Len(got) |-> got[Len(got) + 1 - i]]
      [] edit = "drop_first" -> IF got = <<>> THEN got ELSE Tail(got)
      [] edit = "append" -> Append(got, log_entry("p1", 1, "vacation", 8, "approved"))

\* return request_log: the caller holds the list of the module itself
get_request_log_shared(log, edited) == edited

\* return list(request_log): the event log after the caller has turned the
\* list it was given into `edited`; the list is a copy, the log is as it was
get_request_log(log, edited) == log

list_events(edit) ==
    LET edited == caller_edit(request_log, edit)
    IN  /\ first_request_done
        /\ request_log' = get_request_log(request_log, edited)
        /\ result' = [Res("get_request_log", "ok", "") EXCEPT
                         !.arg = edit, !.rows = edited]
        /\ UNCHANGED <<users, requests, status_log, today, first_request_done, pending_file, inflight>>

----------------------------------------------------------------------------
(* handle_request (approve / deny) and cancel_request *)

\* position of the first queue entry the loop of handle_request matches, 0 if none
handle_match(target, date_str) ==
    LET hits == {i \in 1..Len(requests) :
                    /\ requests[i].user = target
                    /\ requests[i].date = date_str
                    /\ requests[i].type = "vacation"}
    IN  IF hits = {} THEN 0 ELSE CHOOSE i \in hits : \A j \in hits : i <= j

approve_deduct_clamped(u, hours) ==
    [u EXCEPT !.vacation_left = IF @ - hours < 0 THEN 0 ELSE @ - hours,
              !.vacation_used_today = @ + hours]

\* deduct on approval only
approve_deduct(u, hours) ==
    [u EXCEPT !.vacation_left = @ - hours, !.vacation_used_today = @ + hours]

\* req["status"] = ...: the matched entry of the queue takes the decision
handle_mark(idx, status) == [requests EXCEPT ![idx].status = status]

\* the writes of a decision: log_request, audit_append (which saves the
\* profiles), save_users, del requests[idx]
handle_request_writes == <<"log", "audit", "ledger", "queue">>

\* _write_json: an OSError is swallowed and users.json keeps its content
_write_json(payload, writable) == IF writable THEN payload ELSE users

\* Persist all user profiles to disk
save_users(all_users, writable) == _write_json(all_users, writable)

\* writable: whether users.json can be written while the request is served
handle_request(target, date_str, action, writable) ==
    LET idx == handle_match(target, date_str)
        r0 == [Res("handle_request", "ok", target) EXCEPT
                  !.dates = <<date_str>>, !.writes = handle_request_writes]
        status == IF action = "approve" THEN "approved" ELSE "denied"
    IN
    /\ first_request_done
    /\ IF idx = 0
       THEN /\ result' = Res("handle_request", "not_found", target)
            /\ UNCHANGED <<users, requests, request_log>>
       ELSE IF ~users[target].in_store
       THEN \* "Target user ... not found", 400: the entry stays, already marked
            /\ requests' = handle_mark(idx, status)
            /\ result' = [Res("handle_request", "not_found", target)
                              EXCEPT !.dates = <<date_str>>, !.arg = "no_profile"]
            /\ UNCHANGED <<users, request_log>>
       ELSE LET req == handle_mark(idx, status)[idx]
                u1 == IF action = "approve"
                      THEN approve_deduct(users[target], req.hours)
                      ELSE users[target]
            IN  /\ request_log' = Append(request_log,
                       log_entry(target, date_str, "vacation", req.hours, status))
                /\ users' = save_users(
                       [users EXCEPT ![target] = audit_append(u1, "vacation_decision")],
                       writable)
                /\ requests' = RemoveAt(requests, idx)
                /\ result' = [r0 EXCEPT !.hours = req.hours, !.arg = status]
    /\ UNCHANGED <<status_log, today, first_request_done, pending_file, inflight>>

\* the first pending vacation request of the user, whatever its date
cancel_match_any_date(username, date_str) ==
    LET hits == {i \in 1..Len(requests) :
                    /\ requests[i].user = username
                    /\ requests[i].type = "vacation"
                    /\ requests[i].status = "pending"}
    IN  IF hits = {} THEN 0 ELSE CHOOSE i \in hits : \A j \in hits : i <= j

\* position of the first pending vacation request of the user for the date
cancel_match(username, date_str) ==
    LET hits == {i \in 1..Len(requests) :
                    /\ requests[i].user = username
                    /\ requests[i].type = "vacation"
                    /\ requests[i].status = "pending"
                    /\ requests[i].date = date_str}
    IN  IF hits = {} THEN 0 ELSE CHOOSE i \in hits : \A j \in hits : i <= j

\* the writes of a cancellation: del requests[found_idx], audit_append
\* (nothing without a profile), log_request
cancel_request_writes(has_profile) ==
    IF has_profile THEN <<"queue", "audit", "log">> ELSE <<"queue", "log">>

cancel_request(username, date_str) ==
    LET found_idx == cancel_match(username, date_str)
        r0 == [Res("cancel_request", "ok", username) EXCEPT
                  !.dates = <<date_str>>,
                  !.writes = cancel_request_writes(users[username].in_store)]
    IN
    /\ first_request_done
    /\ users[username].is_active
    /\ IF found_idx = 0
       THEN /\ result' = Res("cancel_request", "not_found", username)
            /\ UNCHANGED <<users, requests, request_log>>
       ELSE /\ requests' = RemoveAt(requests, found_idx)
            /\ users' = IF users[username].in_store
                        THEN [users EXCEPT
                                ![username] = audit_append(users[username], "cancel_request")]
                        ELSE users
            /\ request_log' = Append(request_log,
                   log_entry(username, date_str, "vacation",
                             requests[found_idx].hours, "cancelled"))
            /\ result' = [r0 EXCEPT !.hours = requests[found_idx].hours]
    /\ UNCHANGED <<status_log, today, first_request_done, pending_file, inflight>>

----------------------------------------------------------------------------
(* handle_request and cancel_request served by concurrent worker threads:  *)
(* the statements of one handler, grouped into the steps between which     *)
(* another thread can run                                                  *)

\* users = load_users(); the form fields are read
handle_request_load(t, target, date_str, action) ==
    /\ first_request_done
    /\ inflight[t] = Idle
    /\ inflight' = [inflight EXCEPT ![t] =
                       [pc |-> "loaded", op |-> "handle_request", target |-> target,
                        date |-> date_str, action |-> action, users_local |-> users,
                        idx |-> 0, hours |-> 0]]
    /\ UNCHANGED <<users, requests, request_log, status_log, today,
                   first_request_done, result, pending_file>>

\* the loop over list(requests) up to log_request(log_entry): the matched
\* entry takes the decision, the hours are deducted in the loaded profiles,
\* the event log gets its entry
handle_request_match(t) ==
    LET f == inflight[t]
        idx == handle_match(f.target, f.date)
        status == IF f.action = "approve" THEN "approved" ELSE "denied"
    IN
    /\ f.pc = "loaded" /\ f.op = "handle_request"
    /\ IF idx = 0
       THEN /\ result' = Res("handle_request", "not_found", f.target)
            /\ inflight' = [inflight EXCEPT ![t] = Idle]
            /\ UNCHANGED <<requests, request_log>>
       ELSE LET req == handle_mark(idx, status)[idx]
                u1 == IF f.action = "approve"
                      THEN approve_deduct(f.users_local[f.target], req.hours)
                      ELSE f.users_local[f.target]
            IN  /\ requests' = handle_mark(idx, status)
                /\ request_log' = Append(request_log,
                       log_entry(f.target, f.date, "vacation", req.hours, status))
                /\ inflight' = [inflight EXCEPT ![t] =
                       [f EXCEPT !.pc = "logged", !.idx = idx, !.hours = req.hours,
                                 !.users_local = [@ EXCEPT ![f.target] =
                                       audit_append(u1, "vacation_decision")]]]
                /\ UNCHANGED result
    /\ UNCHANGED <<users, status_log, today, first_request_done, pending_file>>

\* audit_append(..., save_immediately=True) and save_users(users): the file
\* is overwritten with the profiles this thread loaded and changed
handle_request_save(t) ==
    /\ inflight[t].pc = "logged"
    /\ users' = save_users(inflight[t].users_local, TRUE)
    /\ inflight' = [inflight EXCEPT ![t].pc = "saved"]
    /\ UNCHANGED <<requests, request_log, status_log, today, first_request_done,
                   result, pending_file>>

\* del requests_data.requests[idx]: the position found by the loop is
\* deleted from the list as it is now; past its end the del raises IndexError
handle_request_delete(t) ==
    LET f == inflight[t]
        r0 == [Res("handle_request", "ok", f.target) EXCEPT
                  !.dates = <<f.date>>, !.hours = f.hours,
                  !.arg = IF f.action = "approve" THEN "approved" ELSE "denied"]
    IN
    /\ f.pc = "saved"
    /\ IF f.idx <= Len(requests)
       THEN /\ requests' = RemoveAt(requests, f.idx)
            /\ result' = r0
       ELSE /\ result' = [r0 EXCEPT !.outcome = "error"]
            /\ UNCHANGED requests
    /\ inflight' = [inflight EXCEPT ![t] = Idle]
    /\ UNCHANGED <<users, request_log, status_log, today, first_request_done,
                   pending_file>>

\* the matching loop of cancel_request
cancel_request_match(t, username, date_str) ==
    LET found_idx == cancel_match(username, date_str)
    IN
    /\ first_request_done
    /\ users[username].is_active
    /\ inflight[t] = Idle
    /\ IF found_idx = 0
       THEN /\ result' = Res("cancel_request", "not_found", username)
            /\ UNCHANGED inflight
       ELSE /\ inflight' = [inflight EXCEPT ![t] =
                   [pc |-> "found", op |-> "cancel_request", target |-> username,
                    date |-> date_str, action |-> "cancel", users_local |-> users,
                    idx |-> found_idx, hours |-> requests[found_idx].hours]]
            /\ UNCHANGED result
    /\ UNCHANGED <<users, requests, request_log, status_log, today,
                   first_request_done, pending_file>>

\* del requests_data.requests[found_idx] and the rest of cancel_request:
\* profiles loaded, audit event saved, cancelled entry logged
cancel_request_delete(t) ==
    LET f == inflight[t]
        r0 == [Res("cancel_request", "ok", f.target) EXCEPT
                  !.dates = <<f.date>>, !.hours = f.hours]
    IN
    /\ f.pc = "found"
    /\ IF f.idx <= Len(requests)
       THEN /\ requests' = RemoveAt(requests, f.idx)
            /\ users' = [users EXCEPT
                           ![f.target] = audit_append(users[f.target], "cancel_request")]
            /\ request_log' = Append(request_log,
                   log_entry(f.target, f.date, "vacation", f.hours, "cancelled"))
            /\ result' = r0
       ELSE /\ result' = [r0 EXCEPT !.outcome = "error"]
            /\ UNCHANGED <<users, requests, request_log>>
    /\ inflight' = [inflight EXCEPT ![t] = Idle]
    /\ UNCHANGED <<status_log, today, first_request_done, pending_file>>

----------------------------------------------------------------------------
(* admin_requests: pending vacation requests grouped by (user, type,       *)
(* hours per day) and split into contiguous date ranges                    *)

\* a parsed date is <<d>>, None is <<>>
_parse_date(s) == IF s = BadDate \/ s = NoDate THEN <<>> ELSE <<s>>

date_min == 0                    \* date.min, before every date of the calendar

\* r["_dt"] or date.min
dt_or_min(dt) == IF dt = <<>> THEN date_min ELSE dt[1]

\* the order of the usernames as strings
user_ord(username) == IF username = "p1" THEN 1 ELSE 2

\* comparison of two sort keys, tuples of three numbers
key_lt(a, b) ==
    \/ a[1] < b[1]
    \/ a[1] = b[1] /\ a[2] < b[2]
    \/ a[1] = b[1] /\ a[2] = b[2] /\ a[3] < b[3]

\* list.sort / sorted: a stable sort of s, keys[i] being the key of s[i]
sorted(s, keys) ==
    LET n == Len(s)
        rank(j) == 1 + Cardinality({k \in 1..n : key_lt(keys[k], keys[j])})
                     + Cardinality({k \in 1..(j - 1) : keys[k] = keys[j]})
    IN  [i \in 1..n |-> s[CHOOSE j \in 1..n : rank(j) = i]]

\* normalize + filter to pending vacation; entry is the position in the
\* queue of the request r the row copies (**r)
enriched(pending) ==
    LET keep == SelectSeq([i \in 1..Len(pending) |-> i],
                          LAMBDA i : pending[i].type = "vacation"
                                     /\ pending[i].status = "pending")
    IN  [k \in 1..Len(keep) |->
            [user |-> pending[keep[k]].user, _type |-> "vacation",
             _hours |-> pending[keep[k]].hours, _dt |-> _parse_date(pending[keep[k]].date),
             _ds |-> pending[keep[k]].date, status |-> pending[keep[k]].status,
             entry |-> keep[k]]]

\* Sort for grouping: by user, type, hours/day, then date
group_sort_key(r) == <<user_ord(r.user), r._hours, dt_or_min(r._dt)>>

run_sort_key(r) == <<0, 0, dt_or_min(r._dt)>>

bucket_key(r) == <<r.user, r._type, r._hours>>

\* flush_seq: the rows emitted for the current run (none when it is empty)
flush_seq(seq) ==
    IF seq = <<>> THEN <<>>
    ELSE LET seq_sorted == sorted(seq, [i \in 1..Len(seq) |-> run_sort_key(seq[i])])
         IN  << [user |-> seq_sorted[1].user, type |-> "Vacation",
                 hours_per_day |-> seq_sorted[1]._hours,
                 start_date |-> seq_sorted[1]._ds,
                 end_date |-> seq_sorted[Len(seq_sorted)]._ds,
                 days |-> [i \in 1..Len(seq_sorted) |->
                             [date |-> seq_sorted[i]._ds, hours |-> seq_sorted[i]._hours,
                              status |-> seq_sorted[i].status,
                              entry |-> seq_sorted[i].entry]]] >>

contiguous_or_same(dt, last_dt) == dt # <<>> /\ last_dt # <<>> /\ dt[1] - last_dt[1] <= 1

contiguous_never(dt, last_dt) == FALSE

\* contiguous if today == last + 1 day
contiguous(dt, last_dt) == dt # <<>> /\ last_dt # <<>> /\ dt[1] - last_dt[1] = 1

\* the walk over the sorted rows, bucket after bucket;
\* acc = [groups, seq, last_dt]
RECURSIVE walk_rows(_, _, _)
walk_rows(rows, i, acc) ==
    IF i > Len(rows) THEN acc.groups \o flush_seq(acc.seq)
    ELSE LET row == rows[i]
             new_bucket == i = 1 \/ bucket_key(rows[i - 1]) # bucket_key(row)
             \* a new bucket starts after the flush that ends the one before
             a0 == IF new_bucket
                   THEN [groups |-> acc.groups \o flush_seq(acc.seq),
                         seq |-> <<>>, last_dt |-> <<>>]
                   ELSE acc
             a1 == IF a0.last_dt = <<>>
                   THEN [a0 EXCEPT !.seq = <<row>>]
                   ELSE IF contiguous(row._dt, a0.last_dt)
                   THEN [a0 EXCEPT !.seq = Append(@, row)]
                   ELSE [a0 EXCEPT !.groups = @ \o flush_seq(a0.seq), !.seq = <<row>>]
         IN  walk_rows(rows, i + 1, [a1 EXCEPT !.last_dt = row._dt])

\* enriched.sort(...)
enriched_sorted(pending) ==
    LET e == enriched(pending)
    IN  sorted(e, [i \in 1..Len(e) |-> group_sort_key(e[i])])

\* the groups handed to the template
aggregate_pending(pending) ==
    walk_rows(enriched_sorted(pending), 1,
              [groups |-> <<>>, seq |-> <<>>, last_dt |-> <<>>])

admin_requests ==
    /\ first_request_done
    /\ result' = [Res("admin_requests", "ok", "") EXCEPT !.rows = aggregate_pending(requests)]
    /\ UNCHANGED <<users, requests, request_log, status_log, today, first_request_done, pending_file, inflight>>

----------------------------------------------------------------------------
(* supervisor_day_status *)

PROTECTED == {"Vacation", "Sick"}
allowed_statuses == {"FMLA", "TDY", "Training", "Field Training", "Admin Leave", "Other"}

\* (cur_map.get(username) or "Available")
current_status(sl, ds, username) ==
    IF sl[ds][username] = "" THEN "Available" ELSE sl[ds][username]

day_will_update_clear_any(current, status_req) ==
    IF status_req = "Available" THEN current # "Available"
    ELSE IF current \in PROTECTED THEN FALSE
    ELSE current # status_req

\* the body of the per-date loop: does this date get the requested status?
day_will_update(current, status_req) ==
    IF current \in PROTECTED THEN FALSE
    ELSE IF status_req = "Available" THEN current # "Available"
    ELSE current # status_req

\* the loop with the skipped counter left alone on a protected date
RECURSIVE day_status_loop_protected_uncounted(_, _, _, _)
day_status_loop_protected_uncounted(acc, dates, username, status_req) ==
    IF dates = <<>> THEN acc
    ELSE LET ds == Head(dates)
             current == current_status(acc.sl, ds, username)
             next == IF day_will_update(current, status_req)
                     THEN [sl |-> [acc.sl EXCEPT ![ds][username] = status_req],
                           updated |-> acc.updated + 1, skipped |-> acc.skipped]
                     ELSE IF current \in PROTECTED THEN acc
                     ELSE [acc EXCEPT !.skipped = @ + 1]
         IN  day_status_loop_protected_uncounted(next, Tail(dates), username, status_req)

\* the loop over the dates of the range; acc = [sl, updated, skipped]
RECURSIVE day_status_loop(_, _, _, _)
day_status_loop(acc, dates, username, status_req) ==
    IF dates = <<>> THEN acc
    ELSE LET ds == Head(dates)
             current == current_status(acc.sl, ds, username)
             next == IF day_will_update(current, status_req)
                     THEN [sl |-> [acc.sl EXCEPT ![ds][username] = status_req],
                           updated |-> acc.updated + 1, skipped |-> acc.skipped]
                     ELSE [acc EXCEPT !.skipped = @ + 1]
         IN  day_status_loop(next, Tail(dates), username, status_req)

\* end_dt: the start when end_date is empty, unparseable or before the start
day_status_end(start_dt, end_str) ==
    IF end_str = NoDate \/ end_str = BadDate \/ end_str < start_dt THEN start_dt ELSE end_str

\* the date scope and status checks that refuse the batch
day_status_rejects(start_dt, end_str, status_req) ==
    \/ start_dt < today
    \/ day_status_end(start_dt, end_str) > today + MAX_FORWARD_DAYS
    \/ (status_req # "Available" /\ status_req \notin allowed_statuses)

\* Build date list
day_status_dates(start_dt, end_dt) ==
    [i \in 1..(end_dt - start_dt + 1) |-> start_dt + i - 1]

supervisor_day_status(username, start_dt, end_str, status_req) ==
    LET end_dt == day_status_end(start_dt, end_str)
        dates == day_status_dates(start_dt, end_dt)
        out == day_status_loop([sl |-> status_log, updated |-> 0, skipped |-> 0],
                               dates, username, status_req)
        r0 == [Res("supervisor_day_status", "ok", username) EXCEPT
                  !.dates = dates, !.arg = status_req]
    IN
    /\ first_request_done
    /\ IF day_status_rejects(start_dt, end_str, status_req)
       THEN /\ result' = Res("supervisor_day_status", "invalid_input", username)
            /\ UNCHANGED <<users, status_log>>
       ELSE /\ status_log' = out.sl
            /\ users' = [users EXCEPT ![username] =
                           audit_append(@, "supervisor_day_status_update")]
            /\ result' = [r0 EXCEPT !.updated = out.updated, !.skipped = out.skipped]
    /\ UNCHANGED <<requests, request_log, today, first_request_done, pending_file, inflight>>

----------------------------------------------------------------------------
(* day_status_preview *)

preview_allowed_statuses ==
    {"FMLA", "TDY", "Training", "Field Training", "Admin Leave", "Other", "Available"}

\* one entry of the preview: the body of the while loop
preview_row(sl, ds, username, status_req) ==
    LET current == IF sl[ds][username] = "" THEN "Available" ELSE sl[ds][username]
        will_change == IF current \in {"Vacation", "Sick"} THEN FALSE
                       ELSE IF status_req = "Available" THEN current # "Available"
                       ELSE current # status_req
        reason == IF current = "Vacation" THEN "vacation"
                  ELSE IF current = "Sick" THEN "sick"
                  ELSE IF will_change THEN "none" ELSE "same"
    IN  [date |-> ds, current_status |-> current, will_change |-> will_change,
         reason |-> reason]

\* the rows of the preview; the result keeps the query parameters as given
preview_rows(username, start_str, end_param, status_param) ==
    LET end_str == IF end_param = NoDate THEN start_str ELSE end_param
        status0 == IF status_param = "" THEN "Available" ELSE status_param
        end0 == IF end_str < start_str THEN start_str ELSE end_str
        max_day == today + MAX_FORWARD_DAYS
        start_dt == IF start_str < today THEN today ELSE start_str
        end_dt == IF end0 > max_day THEN max_day ELSE end0
        status_req == IF status0 \notin preview_allowed_statuses THEN "Available" ELSE status0
    IN  IF start_str = BadDate \/ end_str = BadDate THEN <<>>
        ELSE [i \in 1..(end_dt - start_dt + 1) |->
                 preview_row(status_log, start_dt + i - 1, username, status_req)]

day_status_preview(username, start_str, end_param, status_param) ==
    /\ first_request_done
    /\ result' = [Res("day_status_preview", "ok", username) EXCEPT
                     !.dates = <<start_str, end_param>>, !.arg = status_param,
                     !.rows = preview_rows(username, start_str, end_param, status_param)]
    /\ UNCHANGED <<users, requests, request_log, status_log, today, first_request_done, pending_file, inflight>>

----------------------------------------------------------------------------
(* adjust_vacation, adjust_sick *)

Max0(x) == IF x < 0 THEN 0 ELSE x

adjust_vacation_after_unclamped(before, delta) == before + delta

\* after = max(0.0, before + delta)
adjust_vacation_after(before, delta) == Max0(before + delta)

\* after = before + signed_delta; if after < 0: after = 0.0
adjust_sick_after(before, signed_delta) ==
    IF before + signed_delta < 0 THEN 0 ELSE before + signed_delta

adjust_vacation(target, direction, hours) ==
    LET r0 == [Res("adjust_vacation", "ok", target) EXCEPT !.arg = direction, !.hours = hours]
        delta == IF direction = "add" THEN hours ELSE -hours
    IN
    /\ first_request_done
    /\ IF hours <= 0
       THEN /\ result' = Res("adjust_vacation", "invalid_input", target)
            /\ UNCHANGED users
       ELSE /\ users' = [users EXCEPT ![target] =
                  _audit_append([@ EXCEPT !.vacation_left =
                                     adjust_vacation_after(@, delta)],
                                "vacation_balance_adjust")]
            /\ result' = r0
    /\ UNCHANGED <<requests, request_log, status_log, today, first_request_done, pending_file, inflight>>

adjust_sick(target, op, delta) ==
    LET r0 == [Res("adjust_sick", "ok", target) EXCEPT !.arg = op, !.hours = delta]
        signed_delta == IF op = "add" THEN delta ELSE -delta
    IN
    /\ first_request_done
    /\ users' = [users EXCEPT ![target] =
          _audit_append([@ EXCEPT !.sick_left = adjust_sick_after(@, signed_delta)],
                        "adjust_sick")]
    /\ result' = r0
    /\ UNCHANGED <<requests, request_log, status_log, today, first_request_done, pending_file, inflight>>

----------------------------------------------------------------------------
(* Accrual engine *)

hours_per_day_default == 8

\* the month and day compared with <= : the anniversary day itself not counted
_years_of_service_at_anniversary_late(seniority, at_day) ==
    IF seniority = NoSeniority THEN 0
    ELSE LET years == at_day[1] - seniority[1]
             before == \/ at_day[2] < seniority[2]
                       \/ (at_day[2] = seniority[2] /\ at_day[3] <= seniority[3])
         IN  Max0(IF before THEN years - 1 ELSE years)

\* whole years of service as of at_day = <<year, month, day>>
_years_of_service_at(seniority, at_day) ==
    IF seniority = NoSeniority THEN 0
    ELSE LET years == at_day[1] - seniority[1]
             before == \/ at_day[2] < seniority[2]
                       \/ (at_day[2] = seniority[2] /\ at_day[3] < seniority[3])
         IN  Max0(IF before THEN years - 1 ELSE years)

\* the extra day per year beyond 15 taken off instead of added
nccpd_entitlement_days_for_year_minus(seniority, year) ==
    LET yrs == _years_of_service_at(seniority, <<year, 12, 31>>)
    IN  IF yrs < 1 THEN 0
        ELSE IF yrs < 5 THEN 10
        ELSE IF yrs < 10 THEN 15
        ELSE IF yrs < 15 THEN 20
        ELSE IF yrs = 15 THEN 25
        ELSE 25 - (yrs - 15)

nccpd_entitlement_days_for_year(seniority, year) ==
    LET yrs == _years_of_service_at(seniority, <<year, 12, 31>>)
    IN  IF yrs < 1 THEN 0
        ELSE IF yrs < 5 THEN 10
        ELSE IF yrs < 10 THEN 15
        ELSE IF yrs < 15 THEN 20
        ELSE IF yrs = 15 THEN 25
        ELSE 25 + (yrs - 15)

\* the cap applied from the ceiling itself on
nccpd_apply_carryover_and_min_use_at_cap(prior_vacation_left_hours, over_cap_approved) ==
    LET clamp == prior_vacation_left_hours >= CarryoverCap /\ ~over_cap_approved
        hours == IF clamp THEN CarryoverCap ELSE prior_vacation_left_hours
        min_required == IF hours <= MinUseThreshold THEN 40 ELSE 80
    IN  <<hours, min_required, clamp>>

\* (carryover_out_hours, min_required_hours, supervisor_flag_required)
nccpd_apply_carryover_and_min_use(prior_vacation_left_hours, over_cap_approved) ==
    LET clamp == prior_vacation_left_hours > CarryoverCap /\ ~over_cap_approved
        hours == IF clamp THEN CarryoverCap ELSE prior_vacation_left_hours
        min_required == IF hours <= MinUseThreshold THEN 40 ELSE 80
    IN  <<hours, min_required, clamp>>

\* the audit entry with the balance after the cap in place of the prior one
accrual_audit_entry_carry_in_capped(target_year, ent_days, ent_hours, prior_vac_left, co, over_cap_approved) ==
    [action |-> "nccpd_accrual", year |-> target_year,
     entitlement_days |-> ent_days, entitlement_hours |-> ent_hours,
     carryover_in |-> co[1], carryover_out |-> co[1],
     min_required |-> co[2], over_cap_approved |-> over_cap_approved,
     supervisor_alert |-> co[3]]

\* 5) Audit entry
accrual_audit_entry(target_year, ent_days, ent_hours, prior_vac_left, co, over_cap_approved) ==
    [action |-> "nccpd_accrual", year |-> target_year,
     entitlement_days |-> ent_days, entitlement_hours |-> ent_hours,
     carryover_in |-> prior_vac_left, carryover_out |-> co[1],
     min_required |-> co[2], over_cap_approved |-> over_cap_approved,
     supervisor_alert |-> co[3]]

nccpd_accrual_for_user(user, target_year) ==
    LET ent_days == nccpd_entitlement_days_for_year(user.seniority_date, target_year)
        \* float(user.get("hours_per_day_default", 8.0) or 8.0)
        hpd == IF user.hours_per_day_default = 0 THEN hours_per_day_default
               ELSE user.hours_per_day_default
        ent_hours == ent_days * hpd
        co == nccpd_apply_carryover_and_min_use(user.vacation_left,
                                                user.vacation_over_cap_approved)
    IN  [user EXCEPT !.vacation_entitlement_days_year = ent_days,
                     !.vacation_entitlement_hours_year = ent_hours,
                     !.vacation_carryover_hours = co[1],
                     !.vacation_min_required_hours = co[2],
                     !.vacation_left = co[1] + ent_hours,
                     !.nccpd_supervisor_alert = co[3],
                     !.audit = Append(@, accrual_audit_entry(
                                   target_year, ent_days, ent_hours, user.vacation_left,
                                   co, user.vacation_over_cap_approved))]

\* the batch run without the test for archived persons
nccpd_run_accrual_everyone ==
    LET after == [p \in Persons |-> nccpd_accrual_for_user(users[p], YearOf(today))]
    IN
    /\ first_request_done
    /\ users' = after
    /\ result' = [Res("nccpd_run_accrual", "ok", "") EXCEPT
                     !.dates = <<YearOf(today)>>,
                     !.updated = Cardinality(Persons),
                     !.skipped = Cardinality({p \in Persons : after[p].nccpd_supervisor_alert})]
    /\ UNCHANGED <<requests, request_log, status_log, today, first_request_done, pending_file, inflight>>

nccpd_run_accrual ==
    LET active == {p \in Persons : users[p].is_active}
        after == [p \in Persons |->
                     IF p \in active
                     THEN nccpd_accrual_for_user(users[p], YearOf(today))
                     ELSE users[p]]
    IN
    /\ first_request_done
    /\ users' = after
    /\ result' = [Res("nccpd_run_accrual", "ok", "") EXCEPT
                     !.dates = <<YearOf(today)>>,      \* target_year
                     !.updated = Cardinality(active),
                     !.skipped = Cardinality({p \in active : after[p].nccpd_supervisor_alert})]
    /\ UNCHANGED <<requests, request_log, status_log, today, first_request_done, pending_file, inflight>>

\* nccpd_accrual_for_user applied to one profile for a target year; the
\* result keeps the target year in dates
accrual_for_user_call(username, target_year) ==
    /\ first_request_done
    /\ users' = [users EXCEPT ![username] = nccpd_accrual_for_user(@, target_year)]
    /\ result' = [Res("nccpd_accrual_for_user", "ok", username) EXCEPT
                     !.dates = <<target_year>>]
    /\ UNCHANGED <<requests, request_log, status_log, today, first_request_done, pending_file, inflight>>

----------------------------------------------------------------------------
(* New-year sick reset, run before the first request of the process *)

reset_sick_usage_if_needed ==
    /\ ~first_request_done
    /\ first_request_done' = TRUE
    /\ users' = IF today = Jan1
                THEN [p \in Persons |-> [users[p] EXCEPT !.sick_used_ytd = 0]]
                ELSE users
    /\ result' = Res("reset_sick_usage_if_needed", "ok", "")
    /\ UNCHANGED <<requests, request_log, status_log, today, pending_file, inflight>>

\* the calendar day advances
Tick ==
    /\ today < MaxDate
    /\ today' = today + 1
    /\ UNCHANGED <<users, requests, request_log, status_log, first_request_done, result, pending_file, inflight>>

\* the process restarts: the in-memory queue starts empty again, the event
\* log is read back from its file, the first-request hook is armed again
Restart ==
    /\ first_request_done
    /\ first_request_done' = FALSE
    /\ requests' = <<>>
    /\ UNCHANGED <<users, request_log, status_log, today, result, pending_file, inflight>>

----------------------------------------------------------------------------
(* Specifications *)

\* the step keeps the event log and the audit lists within the bounds
Within(maxlog, maxaudit) ==
    /\ Len(request_log') <= maxlog
    /\ SumAudit(users', Persons) <= maxaudit

SubmitStep ==
    \E p \in Persons, th \in SubmitInputs, force \in BOOLEAN, r \in RangeInputs :
       submit_request(p, th[1], r[2] # NoDate, r[1], r[2], th[2], force)

HandleStep ==
    \E p \in Persons, d \in Dates, a \in ActionInputs : handle_request(p, d, a, TRUE)

CancelStep == \E p \in Persons, d \in Dates : cancel_request(p, d)

DayStatusStep ==
    \E p \in Persons, r \in RangeInputs, s \in StatusInputs :
       supervisor_day_status(p, r[1], r[2], s)

AdjustVacationStep ==
    \E p \in Persons, dir \in {"add", "subtract"}, h \in AdjustHours :
       adjust_vacation(p, dir, h)

AdjustSickStep ==
    \E p \in Persons, op \in {"add", "subtract"} : adjust_sick(p, op, 8)

\* every operation, on one calendar day of one process lifetime
Next ==
    \/ reset_sick_usage_if_needed
    \/ SubmitStep /\ Within(MaxLog, MaxAudit)
    \/ HandleStep /\ Within(MaxLog, MaxAudit)
    \/ CancelStep /\ Within(MaxLog, MaxAudit)
    \/ DayStatusStep /\ Within(MaxLog, MaxAudit)
    \/ AdjustVacationStep /\ Within(MaxLog, MaxAudit)
    \/ AdjustSickStep /\ Within(MaxLog, MaxAudit)
    \/ nccpd_run_accrual /\ Within(MaxLog, MaxAudit)

Spec == Init /\ [][Next]_vars

\* the life cycle of vacation requests: submission, decision, cancellation
SubmitVacationStep ==
    \E p \in Persons, h \in {4, 8}, force \in BOOLEAN, r \in RangeInputs :
       submit_request(p, "vacation", r[2] # NoDate, r[1], r[2], h, force)

NextVacation ==
    \/ reset_sick_usage_if_needed
    \/ SubmitVacationStep /\ Within(MaxLog, MaxAuditDeep)
    \/ HandleStep /\ Within(MaxLog, MaxAuditDeep)
    \/ CancelStep /\ Within(MaxLog, MaxAuditDeep)

VacationSpec == Init /\ [][NextVacation]_vars

\* the form fields of a submission, well-formed or not
TypeInputs == {"vacation", "sick", "comp"}
HoursInputs == {0, 8, 25}
DateInputs == {1, MaxDate, BadDate, NoDate}
EndDateInputs == {MaxDate, BadDate, NoDate}

SubmitAnyStep ==
    \E p \in Persons, t \in TypeInputs, h \in HoursInputs, multi \in BOOLEAN,
       d \in DateInputs, e \in EndDateInputs, force \in BOOLEAN :
       submit_request(p, t, multi, d, e, h, force)

NextInput ==
    \/ reset_sick_usage_if_needed
    \/ SubmitAnyStep /\ Within(MaxInputLog, MaxAudit)

InputSpec == Init /\ [][NextInput]_vars

\* decisions taken while users.json may be unwritable (disk full, permissions)
HandleWriteStep ==
    \E p \in Persons, d \in Dates, a \in ActionInputs, writable \in BOOLEAN :
       handle_request(p, d, a, writable)

NextWrite ==
    \/ reset_sick_usage_if_needed
    \/ SubmitVacationStep /\ Within(MaxLog, MaxAudit)
    \/ HandleWriteStep /\ Within(MaxLog, MaxAudit)
    \/ CancelStep /\ Within(MaxLog, MaxAudit)

WriteSpec == Init /\ [][NextWrite]_vars

\* the event log under every operation that appends to it, and under readers
ListEventsStep == \E edit \in CallerEdits : list_events(edit)

NextLog ==
    \/ reset_sick_usage_if_needed
    \/ SubmitStep /\ Within(MaxInputLog + 1, MaxAudit)
    \/ HandleStep /\ Within(MaxInputLog + 1, MaxAudit)
    \/ CancelStep /\ Within(MaxInputLog + 1, MaxAudit)
    \/ ListEventsStep

LogSpec == Init /\ [][NextLog]_vars

\* pending_store on its own: entries are added and removed by key
PendingTypes == {"vacation", "Vacation", "sick"}

AddPendingStep ==
    \E user \in Persons, date \in Dates, typ \in PendingTypes :
       /\ Len(pending_file) < MaxPending
       /\ add_pending([user |-> user, date |-> date, type |-> typ, hours |-> 8,
                       status |-> "pending"])

RemovePendingStep ==
    \E user \in Persons, date \in Dates, typ \in PendingTypes :
       remove_pending(user, date, typ)

NextPendingStore ==
    \/ reset_sick_usage_if_needed
    \/ AddPendingStep
    \/ RemovePendingStep

PendingStoreSpec == Init /\ [][NextPendingStore]_vars

\* decisions and cancellations served by two threads at once, submissions
\* in between
\* a request goes to the first free worker
FreeWorker(t) == inflight[t] = Idle /\ (t = "t1" \/ inflight["t1"] # Idle)

\* the admin page offers a decision for the requests it lists
HandleLoadStep ==
    \E t \in Threads, p \in Persons, d \in Dates, a \in ActionInputs :
       /\ FreeWorker(t)
       /\ handle_match(p, d) # 0
       /\ handle_request_load(t, p, d, a)

HandleMatchStep == \E t \in Threads : handle_request_match(t)

HandleSaveStep == \E t \in Threads : handle_request_save(t)

HandleDeleteStep == \E t \in Threads : handle_request_delete(t)

CancelMatchStep ==
    \E t \in Threads, p \in Persons, d \in Dates :
       FreeWorker(t) /\ cancel_request_match(t, p, d)

CancelDeleteStep == \E t \in Threads : cancel_request_delete(t)

SubmitOnceStep ==
    \E p \in Persons, d \in Dates :
       submit_request(p, "vacation", FALSE, d, NoDate, 8, FALSE)

NextConcurrent ==
    \/ reset_sick_usage_if_needed
    \/ SubmitOnceStep /\ Within(MaxConcurrentLog, MaxAuditDeep)
    \/ HandleLoadStep
    \/ HandleMatchStep /\ Within(MaxConcurrentLog, MaxAuditDeep)
    \/ HandleSaveStep /\ Within(MaxConcurrentLog, MaxAuditDeep)
    \/ HandleDeleteStep
    \/ CancelMatchStep
    \/ CancelDeleteStep /\ Within(MaxConcurrentLog, MaxAuditDeep)

ConcurrentSpec == Init /\ [][NextConcurrent]_vars

\* the action form field of /handle-request, the two decisions and another value
AnyActionInputs == ActionInputs \cup {"maybe"}

HandleAnyStep ==
    \E p \in Persons, d \in Dates, a \in AnyActionInputs : handle_request(p, d, a, TRUE)

NextDecision ==
    \/ reset_sick_usage_if_needed
    \/ SubmitVacationStep /\ Within(MaxLog, MaxAudit)
    \/ HandleAnyStep /\ Within(MaxLog, MaxAudit)

DecisionSpec == Init /\ [][NextDecision]_vars

\* load_users() reads the profile file anew in every request: between two
\* requests a person's record may have gone from the file
ProfileGone ==
    /\ \E p \in Persons :
          /\ users[p].in_store
          /\ users' = [users EXCEPT ![p].in_store = FALSE]
    /\ UNCHANGED <<requests, request_log, status_log, today, first_request_done, result, pending_file, inflight>>

\* decisions on requests whose owner may have lost the profile
NextProfile ==
    \/ reset_sick_usage_if_needed
    \/ SubmitVacationStep /\ Within(MaxLog, MaxAudit)
    \/ HandleStep /\ Within(MaxLog, MaxAudit)
    \/ CancelStep /\ Within(MaxLog, MaxAudit)
    \/ ProfileGone

ProfileSpec == Init /\ [][NextProfile]_vars

\* sick submissions over the turn of the year, across process restarts
SubmitSickStep ==
    \E p \in Persons, h \in {4, 8}, force \in BOOLEAN, r \in RangeInputs :
       submit_request(p, "sick", r[2] # NoDate, r[1], r[2], h, force)

NextYear ==
    \/ reset_sick_usage_if_needed
    \/ Tick
    \/ Restart
    \/ SubmitSickStep /\ Within(MaxLog, MaxAudit)

YearSpec == Init /\ [][NextYear]_vars

\* a process started on January 1 and restarted during that day
NewYearInit ==
    /\ users = [p \in Persons |->
                  IF p = "p1" THEN default_user(4, 16, <<2010, 1, 1>>)
                  ELSE default_user(16, 8, NoSeniority)]
    /\ requests = <<>>
    /\ request_log = <<>>
    /\ status_log = [d \in Dates |-> [p \in Persons |-> ""]]
    /\ today = Jan1
    /\ first_request_done = FALSE
    /\ result = NoResult
    /\ pending_file = <<>>
    /\ inflight = [t \in Threads |-> Idle]

NextNewYear ==
    \/ reset_sick_usage_if_needed
    \/ Restart
    \/ SubmitSickStep /\ Within(MaxLog, MaxAudit)

NewYearSpec == NewYearInit /\ [][NextNewYear]_vars

\* profiles late in their life: p1 has one audit event less than the ring
\* buffer of audit_append keeps
AuditInit ==
    /\ users = [p \in Persons |->
                  IF p = "p1"
                  THEN [default_user(4, 16, <<2010, 1, 1>>) EXCEPT
                           !.audit = [i \in 1..(AuditKeep - 1) |-> [action |-> "request_submit"]]]
                  ELSE default_user(16, 8, NoSeniority)]
    /\ requests = <<>>
    /\ request_log = <<>>
    /\ status_log = [d \in Dates |-> [p \in Persons |-> ""]]
    /\ today = 1
    /\ first_request_done = FALSE
    /\ result = NoResult
    /\ pending_file = <<>>
    /\ inflight = [t \in Threads |-> Idle]

\* operations that append audit events, through audit_append (submission)
\* and past it (adjustments, accrual)
NextAudit ==
    \/ reset_sick_usage_if_needed
    \/ SubmitVacationStep /\ Within(MaxInputLog, AuditKeep + MaxAudit - 1)
    \/ AdjustVacationStep /\ Within(MaxInputLog, AuditKeep + MaxAudit - 1)
    \/ AdjustSickStep /\ Within(MaxInputLog, AuditKeep + MaxAudit - 1)
    \/ nccpd_run_accrual /\ Within(MaxInputLog, AuditKeep + MaxAudit - 1)

AuditSpec == AuditInit /\ [][NextAudit]_vars

\* day-status updates and their previews, with sick days on file, over two days
PreviewRanges == RangeInputs \cup {<<1, BadDate>>}

DayStatusAnyStep ==
    \E p \in Persons, r \in PreviewRanges, s \in StatusInputs :
       supervisor_day_status(p, r[1], r[2], s)

PreviewStep ==
    \E p \in Persons, r \in PreviewRanges, s \in StatusInputs :
       day_status_preview(p, r[1], r[2], s)

NextPreview ==
    \/ reset_sick_usage_if_needed
    \/ Tick
    \/ SubmitSickStep /\ Within(MaxLog, MaxAudit)
    \/ DayStatusAnyStep /\ Within(MaxLog, MaxAudit)
    \/ PreviewStep

PreviewSpec == Init /\ [][NextPreview]_vars

\* the admin's view of the pending queue: vacation submissions (single
\* days with a gap between them, a range, a date that does not parse),
\* decisions, cancellations
AggDates == 1..MaxAggDate

PendingRanges ==
    {<<1, NoDate>>, <<MaxAggDate, NoDate>>, <<1, 2>>, <<BadDate, NoDate>>}

SubmitPendingStep ==
    \E p \in Persons, h \in {4, 8}, force \in BOOLEAN, r \in PendingRanges :
       submit_request(p, "vacation", r[2] # NoDate, r[1], r[2], h, force)

HandlePendingStep ==
    \E p \in Persons, d \in AggDates \cup {BadDate}, a \in ActionInputs :
       handle_request(p, d, a, TRUE)

CancelPendingStep ==
    \E p \in Persons, d \in AggDates \cup {BadDate} : cancel_request(p, d)

NextAggregate ==
    \/ reset_sick_usage_if_needed
    \/ SubmitPendingStep /\ Within(MaxLog, MaxAuditAgg)
    \/ HandlePendingStep /\ Within(MaxLog, MaxAuditAgg)
    \/ CancelPendingStep /\ Within(MaxLog, MaxAuditAgg)
    \/ admin_requests

AggregateSpec == Init /\ [][NextAggregate]_vars

\* vacation submissions for every range of days, in order or inverted
RangeDates == 1..MaxRangeDate

SubmitRangeStep ==
    \E p \in Persons, force \in BOOLEAN, s \in RangeDates, e \in RangeDates \cup {NoDate} :
       submit_request(p, "vacation", e # NoDate, s, e, 8, force)

NextRange ==
    \/ reset_sick_usage_if_needed
    \/ SubmitRangeStep /\ Within(MaxLog, MaxAudit)

RangeSpec == Init /\ [][NextRange]_vars

\* the accrual engine over profiles of every seniority band and carryover
\* band, for the target years around the model's calendar
TargetYears == {2024, 2025, 2026}

SeniorityInputs ==
    {NoSeniority} \cup
    ({2027, 2025, 2021, 2016, 2011, 2010, 2009} \X {1, 12} \X {1, 31})

BalanceInputs == {-4, 240, 241, 560, 600}

AccrualInit ==
    /\ \E sen \in SeniorityInputs, b \in BalanceInputs, approved \in BOOLEAN,
          alert \in BOOLEAN, hpd \in {0, 10}, active2 \in BOOLEAN :
          users = [p \in Persons |->
                     IF p = "p1"
                     THEN [default_user(b, 16, sen) EXCEPT
                              !.vacation_over_cap_approved = approved,
                              !.nccpd_supervisor_alert = alert,
                              !.hours_per_day_default = hpd]
                     ELSE [default_user(16, 8, NoSeniority) EXCEPT !.is_active = active2]]
    /\ requests = <<>>
    /\ request_log = <<>>
    /\ status_log = [d \in Dates |-> [p \in Persons |-> ""]]
    /\ today = 1
    /\ first_request_done = FALSE
    /\ result = NoResult
    /\ pending_file = <<>>
    /\ inflight = [t \in Threads |-> Idle]

AccrualForUserStep ==
    \E p \in Persons, y \in TargetYears : accrual_for_user_call(p, y)

NextAccrual ==
    \/ reset_sick_usage_if_needed
    \/ Tick
    \/ AccrualForUserStep /\ Within(MaxLog, MaxAudit)
    \/ nccpd_run_accrual /\ Within(MaxLog, MaxAudit)

AccrualSpec == AccrualInit /\ [][NextAccrual]_vars

----------------------------------------------------------------------------
(* Counting the event log and the queue *)

LogCount(username, d, statuses) ==
    Cardinality({i \in 1..Len(request_log) :
                    /\ request_log[i].user = username
                    /\ request_log[i].date = d
                    /\ request_log[i].type = "vacation"
                    /\ request_log[i].status \in statuses})

QueueCountIn(q, username, d) ==
    Cardinality({i \in 1..Len(q) :
                    q[i].user = username /\ q[i].date = d /\ q[i].type = "vacation"})

TerminalStatuses == {"approved", "denied", "cancelled"}

\* the step is a successful operation op (every successful workflow
\* operation appends to the event log)
Did(op) ==
    /\ result'.op = op
    /\ result'.outcome = "ok"
    /\ Len(request_log') > Len(request_log)

NoDuplicateIn(q) ==
    \A username \in Persons, d \in Dates : QueueCountIn(q, username, d) <= 1

StoresUnchanged == UNCHANGED <<users, requests, request_log, status_log>>

\* the step is a run of operation op (not the clock moving, nor a restart,
\* after which result still shows the operation before)
Ran(op) == result'.op = op /\ UNCHANGED <<today, first_request_done>>

----------------------------------------------------------------------------
(* C1: resolving one pending vacation request of h hours for one date      *)
(* changes the person's vacation_left by exactly -h when it is approved    *)
(* and by 0 when it is denied or cancelled; the request resolved is an     *)
(* entry of the queue for that person and date.                            *)

ResolvedEntry(username, d, h) ==
    \E i \in 1..Len(requests) :
        /\ requests[i].user = username
        /\ requests[i].date = d
        /\ requests[i].hours = h
        /\ requests' = SubSeq(requests, 1, i - 1) \o SubSeq(requests, i + 1, Len(requests))

C1_BalanceChange ==
    [][ (Did("handle_request") \/ Did("cancel_request")) =>
          LET username == result'.user
              h == result'.hours
              delta == IF result'.op = "handle_request" /\ result'.arg = "approved"
                       THEN -h ELSE 0
          IN  /\ ResolvedEntry(username, result'.dates[1], h)
              /\ users'[username].vacation_left = users[username].vacation_left + delta
      ]_vars

\* an approval that took the balance below zero, a denial and a
\* cancellation have all happened
C1_Witness ==
    /\ result.op = "handle_request" /\ result.outcome = "ok" /\ result.arg = "approved"
    /\ result.hours = 8
    /\ users[result.user].vacation_left = -4

----------------------------------------------------------------------------
(* C2 as stated: once a pending vacation request of (person, date) has     *)
(* been resolved, the event log holds exactly one approved / denied /      *)
(* cancelled entry for that (person, date), and no further decision or     *)
(* cancellation adds a second one.                                         *)

C2_ExactlyOneTerminal ==
    \A username \in Persons, d \in Dates :
        LogCount(username, d, TerminalStatuses) <= 1

(* C2 as amended: the same, for every (person, date) that was submitted    *)
(* as a pending vacation request once (no forced re-submission of the      *)
(* date): at most one terminal entry ever, and after it no queue entry.    *)

C2_OneTerminalUnlessResubmitted ==
    \A username \in Persons, d \in Dates :
        LogCount(username, d, {"pending"}) <= 1 =>
            /\ LogCount(username, d, TerminalStatuses) <= 1
            /\ (LogCount(username, d, TerminalStatuses) = 1 =>
                    QueueCountIn(requests, username, d) = 0)

\* a resolved request on which a further decision or cancellation was tried
C2_Witness ==
    /\ result.outcome = "not_found"
    /\ \E d \in Dates :
          /\ LogCount(result.user, d, {"pending"}) = 1
          /\ LogCount(result.user, d, TerminalStatuses) = 1

----------------------------------------------------------------------------
(* C3 as stated: the queue never holds two pending requests for the same   *)
(* (person, date, type).                                                   *)

C3_NoDuplicatePending == NoDuplicateIn(requests)

(* C3 as amended: only a forced submission can create a second pending     *)
(* request for a (person, date, type): every other operation, a            *)
(* submission without force included, keeps the queue free of duplicates.  *)

ForcedSubmit == Did("submit_request") /\ result'.arg = "force"

C3_OnlyForceDuplicates ==
    [][ NoDuplicateIn(requests) /\ ~ForcedSubmit => NoDuplicateIn(requests') ]_vars

\* an unforced submission was accepted for a person who already had a
\* pending request on another date
C3_Witness ==
    /\ result.op = "submit_request" /\ result.outcome = "ok" /\ result.arg = ""
    /\ Len(requests) >= 3
    /\ NoDuplicateIn(requests)

----------------------------------------------------------------------------
(* C4: a submission without force for a person who already has an event    *)
(* log entry or a queue entry on a requested date returns                  *)
(* confirmation-required with exactly the conflicting requested dates, in  *)
(* request order, and changes no store; an unforced submission that goes   *)
(* through had no such conflict.                                           *)

OnFile(username, d) ==
    \/ \E i \in 1..Len(request_log) :
          request_log[i].user = username /\ request_log[i].date = d
    \/ \E i \in 1..Len(requests) :
          requests[i].user = username /\ requests[i].date = d

RECURSIVE Conflicting(_, _)
Conflicting(username, dates) ==
    IF dates = <<>> THEN <<>>
    ELSE (IF OnFile(username, Head(dates)) THEN <<Head(dates)>> ELSE <<>>)
         \o Conflicting(username, Tail(dates))

C4_ConfirmNeededChangesNothing ==
    [][ /\ (result'.op = "submit_request" /\ result'.outcome = "confirm_needed") =>
              /\ StoresUnchanged
              /\ result'.dup_dates # <<>>
              /\ result'.dup_dates = Conflicting(result'.user, result'.dates)
        /\ (Did("submit_request") /\ result'.arg # "force") =>
              Conflicting(result'.user, result'.dates) = <<>>
      ]_vars

\* a range was refused because one of its two dates was already on file
C4_Witness ==
    /\ result.op = "submit_request" /\ result.outcome = "confirm_needed"
    /\ Len(result.dates) = 2
    /\ Len(result.dup_dates) = 1

----------------------------------------------------------------------------
(* C5: sick_left is never negative, whatever sick submissions were made.   *)

----------------------------------------------------------------------------
(* C6: sick_used_ytd of every person equals the hours of the person's      *)
(* logged sick events of the current year (the year of the event's date,   *)
(* or of the day it was logged).                                           *)

RECURSIVE SumHoursAt(_, _)
SumHoursAt(log, idx) ==
    IF idx = {} THEN 0
    ELSE LET i == CHOOSE j \in idx : TRUE
         IN  log[i].hours + SumHoursAt(log, idx \ {i})

SickLogged(username) ==
    {i \in 1..Len(request_log) :
        /\ request_log[i].user = username
        /\ request_log[i].type = "sick"
        /\ request_log[i].status = "logged"}

C6_SickUsedYtdMatchesLog ==
    \A username \in Persons :
        \/ users[username].sick_used_ytd =
              SumHoursAt(request_log,
                  {i \in SickLogged(username) :
                      YearOf(request_log[i].date) = YearOf(today)})
        \/ users[username].sick_used_ytd =
              SumHoursAt(request_log,
                  {i \in SickLogged(username) :
                      YearOf(request_log[i].ts) = YearOf(today)})

----------------------------------------------------------------------------
(* C7: a sick submission whose hours per day times number of dates exceed  *)
(* sick_left fails with insufficient balance and changes no store; a sick  *)
(* submission that goes through was covered by sick_left.                  *)

C7_InsufficientChangesNothing ==
    [][ /\ (result'.op = "submit_request" /\ result'.outcome = "insufficient_balance") =>
              /\ StoresUnchanged
              /\ result'.hours * Len(result'.dates) > users[result'.user].sick_left
        /\ (Did("submit_request") /\ result'.type = "sick") =>
              result'.hours * Len(result'.dates) <= users[result'.user].sick_left
      ]_vars

\* a range was refused although one day of it was covered
C7_Witness ==
    /\ result.op = "submit_request" /\ result.outcome = "insufficient_balance"
    /\ Len(result.dates) = 2
    /\ result.hours <= users[result.user].sick_left

----------------------------------------------------------------------------
(* C8: a successful sick submission for n dates at h hours per day takes   *)
(* h*n from sick_left, adds h*n to sick_used_ytd, appends one logged event *)
(* per date, in date order, and sets the day status of every requested     *)
(* date to Sick.                                                           *)

C8_SickSubmissionEffect ==
    [][ (Did("submit_request") /\ result'.type = "sick") =>
          LET username == result'.user
              dates == result'.dates
              n == Len(dates)
              h == result'.hours
          IN  /\ users'[username].sick_left = users[username].sick_left - h * n
              /\ users'[username].sick_used_ytd = users[username].sick_used_ytd + h * n
              /\ Len(request_log') = Len(request_log) + n
              /\ SubSeq(request_log', 1, Len(request_log)) = request_log
              /\ \A i \in 1..n :
                    LET e == request_log'[Len(request_log) + i]
                    IN  /\ e.user = username /\ e.date = dates[i] /\ e.hours = h
                        /\ e.type = "sick" /\ e.status = "logged"
              /\ \A i \in 1..n : status_log'[dates[i]][username] = "Sick"
              /\ requests' = requests
      ]_vars

\* sick_left 16, two dates at 8 hours: sick_left is 0 and both dates are Sick
C8_Witness ==
    /\ result.op = "submit_request" /\ result.outcome = "ok" /\ result.type = "sick"
    /\ result.dates = <<1, 2>> /\ result.hours = 8
    /\ users[result.user].sick_left = 0
    /\ \A d \in {1, 2} : status_log[d][result.user] = "Sick"

----------------------------------------------------------------------------
(* C9 as stated: vacation_left and sick_left of every person are never     *)
(* negative.                                                               *)

Approval == Did("handle_request") /\ result'.arg = "approved"

----------------------------------------------------------------------------
(* C10: a day-status update (set or clear) leaves every date of its range  *)
(* whose status is Vacation or Sick as it is, and counts it as skipped,    *)
(* not as updated.                                                         *)

ProtectedDates(username, dates) ==
    {i \in 1..Len(dates) : status_log[dates[i]][username] \in {"Vacation", "Sick"}}

C10_ProtectedDatesSkipped ==
    [][ (result'.op = "supervisor_day_status" /\ result'.outcome = "ok") =>
          LET username == result'.user
              dates == result'.dates
              prot == ProtectedDates(username, dates)
          IN  /\ \A i \in prot :
                    status_log'[dates[i]][username] = status_log[dates[i]][username]
              /\ result'.skipped >= Cardinality(prot)
              /\ result'.updated <= Len(dates) - Cardinality(prot)
      ]_vars

\* a clear over a range with a Sick day in it
C10_Witness ==
    /\ result.op = "supervisor_day_status" /\ result.outcome = "ok"
    /\ result.arg = "Available"
    /\ result.skipped >= 1
    /\ \E i \in 1..Len(result.dates) : status_log[result.dates[i]][result.user] = "Sick"

----------------------------------------------------------------------------
(* C11: for the same target, date range and requested status the preview   *)
(* reports what the day-status update would do: one row per date of the    *)
(* update's range, in order, with the date's current status, will_change   *)
(* exactly where the update would write, and a reason (vacation, sick,     *)
(* same) exactly where it would skip; where the update refuses the batch   *)
(* the preview announces no change; and the preview changes no store.      *)

PreviewAgrees(username, start_str, end_param, status_param, rows) ==
    IF day_status_rejects(start_str, end_param, status_param)
    THEN \A i \in 1..Len(rows) : ~rows[i].will_change
    ELSE LET dates == day_status_dates(start_str, day_status_end(start_str, end_param))
         IN  /\ Len(rows) = Len(dates)
             /\ \A i \in 1..Len(dates) :
                   LET current == current_status(status_log, dates[i], username)
                       will == day_will_update(current, status_param)
                   IN  /\ rows[i].date = dates[i]
                       /\ rows[i].current_status = current
                       /\ rows[i].will_change = will
                       /\ (rows[i].reason \in {"vacation", "sick", "same"}) = ~will

C11_PreviewMatchesUpdate ==
    [][ Ran("day_status_preview") =>
          /\ StoresUnchanged
          /\ PreviewAgrees(result'.user, result'.dates[1], result'.dates[2],
                           result'.arg, result'.rows)
      ]_vars

----------------------------------------------------------------------------
(* C12: an accepted day-status batch counts each date of its range once:   *)
(* updated + skipped is the number of dates, updated is the number of      *)
(* dates whose stored status differs before and after, every other date    *)
(* (the skipped ones) keeps its status, and nothing outside the range or   *)
(* of another person changes.                                              *)

ChangedDates(username, dates) ==
    {i \in 1..Len(dates) : status_log'[dates[i]][username] # status_log[dates[i]][username]}

C12_CountsPartitionRange ==
    [][ (result'.op = "supervisor_day_status" /\ result'.outcome = "ok") =>
          LET username == result'.user
              dates == result'.dates
              changed == ChangedDates(username, dates)
          IN  /\ result'.updated + result'.skipped = Len(dates)
              /\ result'.updated = Cardinality(changed)
              /\ result'.skipped = Len(dates) - Cardinality(changed)
              /\ \A d \in Dates, p \in Persons :
                    status_log'[d][p] # status_log[d][p] =>
                       p = username /\ \E i \in changed : dates[i] = d
      ]_vars

\* a batch over two dates that updated one and skipped the other, a Sick day
C12_Witness ==
    /\ result.op = "supervisor_day_status" /\ result.outcome = "ok"
    /\ Len(result.dates) = 2
    /\ result.updated = 1 /\ result.skipped = 1
    /\ \E i \in 1..2 : status_log[result.dates[i]][result.user] = "Sick"

----------------------------------------------------------------------------
(* The aggregate rows against the pending queue *)

Aggregated == result.op = "admin_requests"

\* the per-day sub-entries of the rows, as (row, position) pairs
SubEntries(rows) ==
    UNION {{<<k, i>> : i \in 1..Len(rows[k].days)} : k \in 1..Len(rows)}

CountDays(rows, username, hours, d) ==
    Cardinality({e \in SubEntries(rows) :
                    /\ rows[e[1]].user = username
                    /\ rows[e[1]].hours_per_day = hours
                    /\ rows[e[1]].days[e[2]].date = d})

CountPending(username, hours, d) ==
    Cardinality({i \in 1..Len(requests) :
                    /\ requests[i].type = "vacation" /\ requests[i].status = "pending"
                    /\ requests[i].user = username
                    /\ requests[i].hours = hours
                    /\ requests[i].date = d})

SameRow(rows, e1, e2) ==
    \E k \in 1..Len(rows) :
        /\ \E i \in 1..Len(rows[k].days) : rows[k].days[i].entry = e1
        /\ \E i \in 1..Len(rows[k].days) : rows[k].days[i].entry = e2

Parseable(d) == d # BadDate /\ d # NoDate

\* two rows of one group that together are one contiguous range
Mergeable(rows) ==
    \E k1, k2 \in 1..Len(rows) :
        /\ k1 # k2
        /\ rows[k1].user = rows[k2].user
        /\ rows[k1].hours_per_day = rows[k2].hours_per_day
        /\ Parseable(rows[k1].end_date) /\ Parseable(rows[k2].start_date)
        /\ rows[k2].start_date = rows[k1].end_date + 1

\* approve / deny posted with the row's person and the sub-entry's date
\* reaches the request the sub-entry shows
Addressable(rows) ==
    \A e \in SubEntries(rows) :
        handle_match(rows[e[1]].user, rows[e[1]].days[e[2]].date)
            = rows[e[1]].days[e[2]].entry

OnePendingPerDate ==
    \A i, j \in 1..Len(requests) :
        (requests[i].user = requests[j].user /\ requests[i].date = requests[j].date) => i = j

----------------------------------------------------------------------------
(* C13: the per-day sub-entries of the aggregate rows of a (person, type,  *)
(* hours per day) group are exactly the pending vacation requests of the   *)
(* group, each as often as the queue holds it, a duplicate date or an      *)
(* unparseable date included.                                              *)

C13_FlattenReproducesPending ==
    Aggregated =>
        \A username \in Persons, hours \in {4, 8}, d \in AggDates \cup {BadDate} :
            CountDays(result.rows, username, hours, d) = CountPending(username, hours, d)

----------------------------------------------------------------------------
(* C14: two entries that follow each other in the sort, in the same        *)
(* (person, type, hours per day) group, are in the same aggregate row      *)
(* exactly when the second date is one calendar day after the first; the   *)
(* start_date and end_date of a row are its first and last date, and its   *)
(* dates go up by one day.                                                 *)

C14_RunsSplitOnGaps ==
    Aggregated =>
        LET srt == enriched_sorted(requests)
            rows == result.rows
        IN  /\ \A i \in 1..(Len(srt) - 1) :
                  bucket_key(srt[i]) = bucket_key(srt[i + 1]) =>
                     (SameRow(rows, srt[i].entry, srt[i + 1].entry)
                        <=> /\ Parseable(srt[i]._ds) /\ Parseable(srt[i + 1]._ds)
                            /\ srt[i + 1]._ds = srt[i]._ds + 1)
            /\ \A k \in 1..Len(rows) :
                  /\ rows[k].days # <<>>
                  /\ rows[k].start_date = rows[k].days[1].date
                  /\ rows[k].end_date = rows[k].days[Len(rows[k].days)].date
                  /\ \A i \in 1..(Len(rows[k].days) - 1) :
                        rows[k].days[i + 1].date = rows[k].days[i].date + 1

\* one group shown as two rows around a gap, another as one row of two days
C14_Witness ==
    /\ Aggregated
    /\ \E k1, k2 \in 1..Len(result.rows) :
          /\ k1 # k2
          /\ result.rows[k1].user = result.rows[k2].user
          /\ result.rows[k1].hours_per_day = result.rows[k2].hours_per_day
          /\ result.rows[k1].end_date = 1 /\ result.rows[k2].start_date = MaxAggDate
    /\ \E k \in 1..Len(result.rows) : Len(result.rows[k].days) = 2

----------------------------------------------------------------------------
(* C15 as stated: the rows are as few as can be, no two rows of a group    *)
(* make one contiguous range together, and every per-day sub-entry is      *)
(* reached by an approve / deny on its (person, date).                     *)

----------------------------------------------------------------------------
(* C16: in the sort of the aggregation, within a (person, type, hours per  *)
(* day) group, no entry with an unparseable date comes before an entry     *)
(* with a parseable date.                                                  *)

C16_UnparseableSortLast ==
    Aggregated =>
        LET srt == enriched_sorted(requests)
        IN  \A i, j \in 1..Len(srt) :
               (i < j /\ bucket_key(srt[i]) = bucket_key(srt[j])) =>
                   ~(srt[i]._dt = <<>> /\ srt[j]._dt # <<>>)

----------------------------------------------------------------------------
(* The accrual of one profile *)

\* the last operation applied the accrual to the profile of result.user
AccruedOne == result.op = "nccpd_accrual_for_user"

AccrualFields(u) ==
    <<u.vacation_left, u.vacation_carryover_hours, u.vacation_entitlement_days_year,
      u.vacation_entitlement_hours_year, u.vacation_min_required_hours>>

\* whole years between the seniority date and December 31 of the year
YearsCompletedByDec31(sen, year) ==
    IF sen = NoSeniority \/ sen[1] > year THEN 0 ELSE year - sen[1]

StepTable(y) ==
    IF y < 1 THEN 0
    ELSE IF y <= 4 THEN 10
    ELSE IF y <= 9 THEN 15
    ELSE IF y <= 14 THEN 20
    ELSE IF y = 15 THEN 25
    ELSE 25 + (y - 15)

----------------------------------------------------------------------------
(* C17: a second accrual run for the same person and the same target year, *)
(* with no operation in between, leaves vacation_left, carryover,          *)
(* entitlement and minimum-required as the first run left them.            *)

C17_SecondRunChangesNothing ==
    [][ /\ (/\ result.op = "nccpd_accrual_for_user" /\ Ran("nccpd_accrual_for_user")
             /\ result'.user = result.user /\ result'.dates = result.dates) =>
               AccrualFields(users'[result.user]) = AccrualFields(users[result.user])
        /\ (/\ result.op = "nccpd_run_accrual" /\ Ran("nccpd_run_accrual")
             /\ result'.dates = result.dates) =>
               \A username \in Persons :
                  AccrualFields(users'[username]) = AccrualFields(users[username])
      ]_vars

----------------------------------------------------------------------------
(* C18: for a fixed seniority date the entitlement days do not go down as  *)
(* the target year goes up: the days the accrual stored for its target     *)
(* year are at least the days of every earlier year and at most the days   *)
(* of every later year; seniority 2010-01-01 gives 20 days for 2024 and 25 *)
(* days for 2025.                                                          *)

C18_EntitlementMonotone ==
    AccruedOne =>
        LET u == users[result.user]
            year == result.dates[1]
            days == u.vacation_entitlement_days_year
        IN  /\ \A y \in TargetYears :
                  /\ y <= year =>
                        nccpd_entitlement_days_for_year(u.seniority_date, y) <= days
                  /\ year <= y =>
                        days <= nccpd_entitlement_days_for_year(u.seniority_date, y)
            /\ (u.seniority_date = <<2010, 1, 1>> /\ year = 2024) => days = 20
            /\ (u.seniority_date = <<2010, 1, 1>> /\ year = 2025) => days = 25

\* seniority 2010-01-01 accrued for 2025: 25 days
C18_Witness ==
    /\ AccruedOne
    /\ users[result.user].seniority_date = <<2010, 1, 1>>
    /\ result.dates = <<2025>>
    /\ users[result.user].vacation_entitlement_days_year = 25

----------------------------------------------------------------------------
(* C19: the entitlement days the accrual stores are the step table applied *)
(* to the whole years of service completed as of December 31 of the target *)
(* year (0 without a seniority date or with one after the year), and the   *)
(* entitlement hours are the days times the daily-hours default of the     *)
(* profile (8 when the profile sets none).                                 *)

C19_EntitlementStepTable ==
    AccruedOne =>
        LET u == users[result.user]
            days == StepTable(YearsCompletedByDec31(u.seniority_date, result.dates[1]))
            daily == IF u.hours_per_day_default = 0 THEN 8 ELSE u.hours_per_day_default
        IN  /\ u.vacation_entitlement_days_year = days
            /\ u.vacation_entitlement_hours_year = days * daily

\* seniority on a December 31, 17 years before the end of the target year,
\* with a daily-hours default of 10: 27 days, 270 hours
C19_Witness ==
    /\ AccruedOne
    /\ users[result.user].seniority_date = <<2009, 12, 31>>
    /\ result.dates = <<2026>>
    /\ users[result.user].vacation_entitlement_days_year = 27
    /\ users[result.user].vacation_entitlement_hours_year = 270

----------------------------------------------------------------------------
(* C20: the carryover step of the accrual: from a prior vacation_left b    *)
(* above 560 without over-cap approval the carryover is 560 and the        *)
(* supervisor flag is set; otherwise the carryover is b and the flag is    *)
(* cleared; minimum-required is 40 for a carryover of at most 240 and 80   *)
(* above; the new vacation_left is carryover plus entitlement hours.       *)

C20_CarryoverStep ==
    [][ Ran("nccpd_accrual_for_user") =>
          LET b == users[result'.user].vacation_left
              a == users[result'.user].vacation_over_cap_approved
              u == users'[result'.user]
              capped == b > 560 /\ ~a
          IN  /\ u.vacation_carryover_hours = IF capped THEN 560 ELSE b
              /\ u.nccpd_supervisor_alert = capped
              /\ u.vacation_min_required_hours =
                    IF u.vacation_carryover_hours <= 240 THEN 40 ELSE 80
              /\ u.vacation_left = u.vacation_carryover_hours
                                     + u.vacation_entitlement_hours_year
      ]_vars

\* b = 600, not approved: carryover 560, flag set, minimum 80
C20_Witness ==
    /\ AccruedOne
    /\ Len(users[result.user].audit) = 1
    /\ ~users[result.user].vacation_over_cap_approved
    /\ users[result.user].vacation_carryover_hours = 560
    /\ users[result.user].nccpd_supervisor_alert
    /\ users[result.user].vacation_min_required_hours = 80
    /\ users[result.user].vacation_left >= 560

----------------------------------------------------------------------------
(* C21: one accrual run for a person leaves vacation_left equal to the     *)
(* carryover (capped or not) plus the entitlement hours, and appends       *)
(* exactly one audit event to that person's audit list, which records the  *)
(* inputs of the run (target year, prior balance, over-cap approval) and   *)
(* its outputs (entitlement days and hours, carryover, minimum-required,   *)
(* supervisor flag); the batch run does so for every active person.        *)

AccrualRecorded(before, after, year) ==
    LET e == after.audit[Len(after.audit)]
    IN  /\ after.vacation_left
              = after.vacation_carryover_hours + after.vacation_entitlement_hours_year
        /\ Len(after.audit) = Len(before.audit) + 1
        /\ SubSeq(after.audit, 1, Len(before.audit)) = before.audit
        /\ e.action = "nccpd_accrual"
        /\ e.year = year
        /\ e.carryover_in = before.vacation_left
        /\ e.over_cap_approved = before.vacation_over_cap_approved
        /\ e.entitlement_days = after.vacation_entitlement_days_year
        /\ e.entitlement_hours = after.vacation_entitlement_hours_year
        /\ e.carryover_out = after.vacation_carryover_hours
        /\ e.min_required = after.vacation_min_required_hours
        /\ e.supervisor_alert = after.nccpd_supervisor_alert

C21_AccrualBalanceAndAudit ==
    [][ /\ Ran("nccpd_accrual_for_user") =>
              /\ AccrualRecorded(users[result'.user], users'[result'.user],
                                 result'.dates[1])
              /\ \A p \in Persons \ {result'.user} : users'[p] = users[p]
        /\ Ran("nccpd_run_accrual") =>
              \A p \in Persons :
                 IF users[p].is_active
                 THEN AccrualRecorded(users[p], users'[p], result'.dates[1])
                 ELSE users'[p] = users[p]
      ]_vars

\* a capped run: prior balance 600 recorded, carryover 560, 200 hours added
C21_Witness ==
    /\ AccruedOne
    /\ LET u == users[result.user]
       IN  /\ Len(u.audit) = 1
           /\ u.audit[1].carryover_in = 600
           /\ u.audit[1].carryover_out = 560
           /\ u.vacation_left = 760

----------------------------------------------------------------------------
(* C22: a decision that ends in NotFound, because no queued request        *)
(* matches or because the target person has no profile, leaves the         *)
(* pending queue (the status of every queued request included), the        *)
(* profiles and the event log as they were.                                *)

DecisionNotFound ==
    /\ result'.op = "handle_request"
    /\ result'.outcome = "not_found"
    /\ UNCHANGED <<today, first_request_done>>
    /\ result' # result \/ requests' # requests

C22_NotFoundDecisionChangesNothing ==
    [][DecisionNotFound => UNCHANGED <<requests, users, request_log>>]_vars

----------------------------------------------------------------------------
(* C23: a submission with invalid input (a type other than vacation or     *)
(* sick, hours outside 0 < h <= 24, a malformed or missing start date in   *)
(* single or range mode, a malformed end date in range mode) is rejected   *)
(* as invalid input and changes no store.                                  *)

InvalidSubmission(request_type, hours, multi, date_str, end_date_str) ==
    \/ request_type \notin {"vacation", "sick"}
    \/ ~(0 < hours /\ hours <= 24)
    \/ date_str \in {BadDate, NoDate}
    \/ multi /\ end_date_str = BadDate

C23_InvalidSubmissionRejected ==
    [][\A p \in Persons, t \in TypeInputs, h \in HoursInputs, multi \in BOOLEAN,
          d \in DateInputs, e \in EndDateInputs, force \in BOOLEAN :
          /\ InvalidSubmission(t, h, multi, d, e)
          /\ submit_request(p, t, multi, d, e, h, force)
          => /\ result'.outcome = "invalid_input"
             /\ StoresUnchanged
      ]_vars

----------------------------------------------------------------------------
(* C24: an approval that is reported as successful, with the pending       *)
(* request removed and an approved event-log entry appended, has deducted  *)
(* the request's hours from the persisted vacation_left: a failed write    *)
(* of the profile store is never answered with success.                    *)

ApprovalReported ==
    /\ Approval
    /\ Len(requests') = Len(requests) - 1
    /\ request_log'[Len(request_log')].status = "approved"

C24_ApprovalPersistsDeduction ==
    [][ApprovalReported =>
          users'[result'.user].vacation_left
             = users[result'.user].vacation_left - result'.hours]_vars

----------------------------------------------------------------------------
(* C25: every submission, decision and cancellation that goes through      *)
(* writes to its stores in the order event log, profile store, pending     *)
(* queue, audit trail: no write to a store later in this order precedes a  *)
(* write to an earlier one.                                                *)

WriteRank(store) ==
    CASE store = "log" -> 1
      [] store = "ledger" -> 2
      [] store = "queue" -> 3
      [] store = "audit" -> 4

WritesInOrder(w) ==
    \A i, j \in 1..Len(w) : i < j => WriteRank(w[i]) <= WriteRank(w[j])

C25_WritesInSpecifiedOrder ==
    [][\A op \in {"submit_request", "handle_request", "cancel_request"} :
          Did(op) => WritesInOrder(result'.writes)]_vars

----------------------------------------------------------------------------
(* C26: the new-year reset is idempotent: when it runs again on a day on   *)
(* which it has already run (the process was restarted on January 1, sick  *)
(* time was logged in between), the second run changes no profile field.   *)

\* a run of the reset that is not the first of the day: in NewYearSpec every
\* operation follows a first run on January 1 and leaves a result behind
ResetRunsAgain ==
    /\ ~first_request_done /\ first_request_done'
    /\ today = Jan1
    /\ result.op # "none"

C26_SecondResetIsNoOp ==
    [][ResetRunsAgain => users' = users]_vars

----------------------------------------------------------------------------
(* C27: after any sequence of submissions, decisions, cancellations,       *)
(* day-status updates, balance adjustments and accrual runs, no person's   *)
(* audit list holds more than the last 500 events.                         *)

C27_AuditListBounded ==
    \A p \in Persons : Len(users[p].audit) <= AuditKeep

----------------------------------------------------------------------------
(* C28: the event log is append-only: every step leaves the entries it     *)
(* holds unchanged and in place (the log before the step is a prefix of    *)
(* the log after it); whatever a caller does to a list it got from         *)
(* get_request_log, the event log keeps its length and its order.          *)

IsPrefix(s, t) == Len(s) <= Len(t) /\ SubSeq(t, 1, Len(s)) = s

C28_LogAppendOnly ==
    [][ /\ IsPrefix(request_log, request_log')
        /\ result'.op = "get_request_log" => request_log' = request_log
      ]_vars

\* a caller emptied its list while the log holds two entries
C28_Witness ==
    /\ result.op = "get_request_log" /\ result.arg = "clear"
    /\ result.rows = <<>>
    /\ Len(request_log) >= 2

----------------------------------------------------------------------------
(* C29: a vacation submission that goes through for n dates changes no     *)
(* balance and appends exactly n pending requests to the queue and n       *)
(* pending entries to the event log, one per requested date in request     *)
(* order; a forced re-submission of the same payload appends n further     *)
(* records of each kind and reuses none.                                   *)

Balances(u) ==
    <<u.vacation_left, u.vacation_used_today, u.sick_left, u.sick_used_ytd>>

VacationSubmitted == Did("submit_request") /\ result'.type = "vacation"

C29_VacationSubmissionCreatesRecords ==
    [][VacationSubmitted =>
          LET username == result'.user
              dates == result'.dates
              n == Len(dates)
              newq == SubSeq(requests', Len(requests) + 1, Len(requests'))
              newl == SubSeq(request_log', Len(request_log) + 1, Len(request_log'))
          IN  /\ \A p \in Persons : Balances(users'[p]) = Balances(users[p])
              /\ Len(requests') = Len(requests) + n
              /\ Len(request_log') = Len(request_log) + n
              /\ SubSeq(requests', 1, Len(requests)) = requests
              /\ SubSeq(request_log', 1, Len(request_log)) = request_log
              /\ \A i \in 1..n :
                    /\ newq[i].user = username /\ newq[i].date = dates[i]
                    /\ newq[i].type = "vacation" /\ newq[i].status = "pending"
                    /\ newq[i].hours = result'.hours
                    /\ newl[i].user = username /\ newl[i].date = dates[i]
                    /\ newl[i].type = "vacation" /\ newl[i].status = "pending"
                    /\ newl[i].hours = result'.hours
      ]_vars

\* a two-day request was submitted and then submitted again with force: two
\* pending requests and two pending log entries for each of the days
C29_Witness ==
    /\ result.op = "submit_request" /\ result.outcome = "ok"
    /\ result.type = "vacation" /\ result.arg = "force"
    /\ Len(result.dates) = 2
    /\ \A i \in 1..2 :
          /\ QueueCountIn(requests, result.user, result.dates[i]) = 2
          /\ LogCount(result.user, result.dates[i], {"pending"}) = 2

----------------------------------------------------------------------------
(* C30: a cancellation by person P for date d removes exactly one request  *)
(* from the queue, a pending vacation request of P for d, appends one      *)
(* cancelled entry for (P, d) to the event log, and leaves every balance   *)
(* and every other queued request as it was; when P has no pending request *)
(* for d the cancellation answers not-found and changes neither the queue  *)
(* nor the event log.                                                      *)

PendingOf(q, username, d) ==
    {i \in 1..Len(q) : /\ q[i].user = username /\ q[i].date = d
                       /\ q[i].type = "vacation" /\ q[i].status = "pending"}

C30_CancelFrame ==
    [][ /\ Did("cancel_request") =>
              LET username == result'.user
                  d == result'.dates[1]
                  last == request_log'[Len(request_log')]
              IN  /\ \E i \in PendingOf(requests, username, d) :
                        requests' = RemoveAt(requests, i)
                  /\ Len(request_log') = Len(request_log) + 1
                  /\ SubSeq(request_log', 1, Len(request_log)) = request_log
                  /\ last.user = username /\ last.date = d
                  /\ last.status = "cancelled" /\ last.type = "vacation"
                  /\ \A p \in Persons : Balances(users'[p]) = Balances(users[p])
        /\ (result'.op = "cancel_request" /\ result'.outcome = "not_found") =>
              UNCHANGED <<requests, request_log>>
        /\ \A p \in Persons, d \in Dates :
              (cancel_request(p, d) /\ PendingOf(requests, p, d) = {}) =>
                  result'.outcome = "not_found"
      ]_vars

\* one of two pending requests of a person was cancelled, the other one and
\* another person's request are still queued
C30_Witness ==
    /\ result.op = "cancel_request" /\ result.outcome = "ok"
    /\ PendingOf(requests, result.user, result.dates[1]) = {}
    /\ \E i, j \in 1..Len(requests) :
          /\ requests[i].user = result.user
          /\ requests[j].user # result.user
    /\ request_log[Len(request_log)].status = "cancelled"

----------------------------------------------------------------------------
(* C31: the accrual batch run changes no field of an inactive person's     *)
(* profile (balances, entitlement fields, supervisor flag, audit list),    *)
(* and the number of processed persons it reports is the number of active  *)
(* persons.                                                                *)

C31_AccrualSkipsInactive ==
    [][Ran("nccpd_run_accrual") =>
          /\ \A p \in Persons : ~users[p].is_active => users'[p] = users[p]
          /\ result'.updated = Cardinality({p \in Persons : users[p].is_active})
      ]_vars

\* a run that processed one person and passed over an archived one
C31_Witness ==
    /\ result.op = "nccpd_run_accrual" /\ result.outcome = "ok"
    /\ result.updated = 1
    /\ \E p, q \in Persons :
          /\ ~users[p].is_active /\ users[p].audit = <<>>
          /\ users[p].vacation_entitlement_hours_year = 0
          /\ users[q].is_active /\ Len(users[q].audit) >= 1

----------------------------------------------------------------------------
(* C32: remove_pending(user, date, type) removes exactly the first stored  *)
(* entry that matches (user, date, type) and returns true, leaving every   *)
(* other entry, later duplicates of the key included, in its place and     *)
(* order; when no entry matches it returns false and the store is          *)
(* unchanged. (The store compares the type without regard to case.)        *)

PendingMatches(items, user, date, typ) ==
    {i \in 1..Len(items) : /\ items[i].user = user /\ items[i].date = date
                           /\ lower(items[i].type) = lower(typ)}

C32_RemovePendingFirstMatch ==
    [][result'.op = "remove_pending" /\ (result' # result \/ pending_file' # pending_file) =>
          LET hits == PendingMatches(pending_file, result'.user, result'.dates[1],
                                     result'.type)
          IN  IF hits = {}
              THEN result'.arg = "false" /\ pending_file' = pending_file
              ELSE /\ result'.arg = "true"
                   /\ pending_file' =
                         RemoveAt(pending_file, CHOOSE i \in hits : \A j \in hits : i <= j)
      ]_vars

\* the first of two entries with the same key was removed, the duplicate
\* is still stored behind an entry of another key
C32_Witness ==
    /\ result.op = "remove_pending" /\ result.arg = "true"
    /\ Len(pending_file) = 2
    /\ PendingMatches(pending_file, result.user, result.dates[1], result.type) = {2}

----------------------------------------------------------------------------
(* C33: at-most-once deduction, also when two decisions on the same        *)
(* (person, date) are interleaved step by step: every pending vacation     *)
(* request yields at most one approved event-log entry, and the hours      *)
(* taken from a person's persisted vacation_left never exceed the hours    *)
(* of the requests that person submitted.                                  *)

\* vacation_left of the profiles in Init
StartBalance(p) == IF p = "p1" THEN 4 ELSE 16

SubmittedHours(p) ==
    SumHoursAt(request_log,
        {i \in 1..Len(request_log) :
            /\ request_log[i].user = p /\ request_log[i].type = "vacation"
            /\ request_log[i].status = "pending"})

C33_AtMostOnceDeduction ==
    \A p \in Persons :
        /\ \A d \in Dates : LogCount(p, d, {"approved"}) <= LogCount(p, d, {"pending"})
        /\ StartBalance(p) - users[p].vacation_left <= SubmittedHours(p)

----------------------------------------------------------------------------
(* C34: under every interleaving of decisions and cancellations, the       *)
(* entry a handler deletes from the queue is the entry it matched: the     *)
(* position it deletes lies within the queue and holds a request of the    *)
(* matched person and date.                                                *)

DeletesBy(t) ==
    /\ inflight[t].pc \in {"saved", "found"}
    /\ inflight'[t] = Idle

C34_DeleteRemovesMatched ==
    [][\A t \in Threads :
          DeletesBy(t) =>
             LET f == inflight[t]
             IN  /\ f.idx <= Len(requests)
                 /\ requests[f.idx].user = f.target
                 /\ requests[f.idx].date = f.date
                 /\ requests' = RemoveAt(requests, f.idx)
      ]_vars

----------------------------------------------------------------------------
(* C35: in every state reached by submissions, approvals, denials and      *)
(* cancellations served one after the other, the queue holds for every     *)
(* (person, date) as many requests as the event log holds pending          *)
(* vacation entries for it, less the approved, denied and cancelled ones.  *)

----------------------------------------------------------------------------
(* C36: in every reachable state every request in the pending queue has    *)
(* type vacation and status pending.                                       *)

C36_QueueHoldsPendingVacation ==
    \A i \in 1..Len(requests) :
        requests[i].type = "vacation" /\ requests[i].status = "pending"

----------------------------------------------------------------------------
(* C37: a decision request whose decision is neither approve nor deny is   *)
(* rejected: it is not carried out as a decision, and it changes neither   *)
(* the pending queue nor the profiles nor the event log.                   *)

C37_OtherDecisionRejected ==
    [][\A p \in Persons, d \in Dates, a \in AnyActionInputs \ ActionInputs :
          handle_request(p, d, a, TRUE) =>
             /\ result'.outcome # "ok"
             /\ UNCHANGED <<requests, users, request_log>>
      ]_vars

----------------------------------------------------------------------------
(* C38: the protected labels of the day-status overlay *)

\* C38: the protected labels reach the day-status overlay through the
\* request handlers only: after a vacation request for (person, date) is
\* approved the day-status entry of that date and person is Vacation, after a
\* sick submission the entry of every submitted date is Sick, and
\* supervisor_day_status never stores Vacation or Sick as a new status.
C38_ProtectedLabelsFromWorkflow ==
    [][/\ \A p \in Persons, d \in Dates :
             handle_request(p, d, "approve", TRUE) /\ result'.outcome = "ok" =>
                status_log'[d][p] = "Vacation"
       /\ \A p \in Persons, h \in {4, 8}, force \in BOOLEAN, r \in RangeInputs :
             submit_request(p, "sick", r[2] # NoDate, r[1], r[2], h, force)
                /\ result'.outcome = "ok" =>
                \A i \in 1..Len(result'.dates) :
                   status_log'[result'.dates[i]][p] = "Sick"
       /\ \A p \in Persons, r \in RangeInputs, s \in StatusInputs :
             supervisor_day_status(p, r[1], r[2], s) =>
                \A d \in DOMAIN status_log' :
                   status_log'[d][p] \in PROTECTED =>
                      d \in DOMAIN status_log /\ status_log'[d][p] = status_log[d][p]
      ]_vars

----------------------------------------------------------------------------
(* C39: date-range expansion *)

\* C39: a range submission with start <= end covers exactly the days
\* start..end, each once, in ascending order (end - start + 1 days); with an
\* inverted range (end < start) it covers the single day start. The days are
\* those the handler reports and, when records are created, those of the
\* appended log entries and pending requests.
C39_RangeExpansion ==
    [][\A p \in Persons, force \in BOOLEAN, s \in RangeDates, e \in RangeDates :
          submit_request(p, "vacation", TRUE, s, e, 8, force)
             /\ result'.outcome \in {"ok", "confirm_needed"} =>
             LET out == result'.dates
                 n == IF s <= e THEN e - s + 1 ELSE 1
             IN  /\ Len(out) = n
                 /\ \A i \in 1..n : out[i] = s + i - 1
                 /\ result'.outcome = "ok" =>
                       /\ Len(request_log') = Len(request_log) + n
                       /\ Len(requests') = Len(requests) + n
                       /\ \A i \in 1..n :
                             /\ request_log'[Len(request_log) + i].date = s + i - 1
                             /\ requests'[Len(requests) + i].date = s + i - 1
      ]_vars

\* a range of three days has been submitted and recorded
C39_Witness ==
    /\ result.op = "submit_request"
    /\ result.outcome = "ok"
    /\ result.dates = <<2, 3, 4>>
    /\ Len(requests) >= 3

====
